---- MODULE Spec2Model ----
(***************************************************************************)
(* Verification model of the MCP minutes gateway (meetingminutes).          *)
(*                                                                         *)
(* Strings that the program inspects character by character (paths) are    *)
(* sequences of atoms; an atom is one character or one indivisible word,   *)
(* chosen so that no string has two spellings.                             *)
(***************************************************************************)
EXTENDS Integers, Sequences, FiniteSets, TLC

VARIABLES
    pthPrefix,      \* SpecPath: the prefix q handed to the containment tests
    pthFull,        \* SpecPath: the item path p handed to the containment tests
    pthRes,         \* SpecPath: outcome of the three tests, or NoRes before they ran
    upItems,        \* the upstream drive: item id -> [present, name, parent, folder]
    upEnv,          \* what other clients of the drive have done so far (bounded)
    proc,           \* per-user provisioning calls (initUserScope), one record each
    dl,             \* sp_download_protocol calls, one record each
    ls,             \* sp_list_protocols calls and the cursors handed out so far
    jwt,            \* the token verifier: clock, JWKS cache, the run in progress
    http,           \* the HTTP server: configuration, download store, requests
    cu,             \* SpecCursor: the cursor codec's input and what it returned
    rt,             \* SpecRetry: one graph.request through the retry middleware
    ds,             \* SpecStore: the in-memory download store, its clock and callers
    bk,             \* SpecBroker: the destination service, its token cache and callers
    ui,             \* SpecIdentity: token claims and the identity derived from them
    ob,             \* SpecObjectStore: putObject calls against an S3-compatible store
    tw,             \* SpecTool: one tool invocation through the registerTool wrapper
    lc,             \* SpecConfig: an environment and what loadConfig made of it
    jk,             \* SpecJwks: the JWKS cache under concurrent verifications
    cx,             \* SpecContext: per-user tool calls from token to handler
    um              \* SpecUpload: uploads of rendered minutes to the output folder

pathVars == <<pthPrefix, pthFull, pthRes>>

driveVars == <<upItems, upEnv>>

finalVars == <<jk, cx, um>>

vars == <<pathVars, driveVars, proc, dl, ls, jwt, http, cu, rt, ds, bk, ui, ob, tw, lc,
          finalVars>>

-----------------------------------------------------------------------------
(* Errors and results. *)

\* new AppError(status, code, ...): the typed error of the program
AppError(status, code) == [kind |-> "AppError", status |-> status, code |-> code]

\* An error that is not an AppError (SyntaxError, TypeError, ...)
UntypedError(name) == [kind |-> "Error", status |-> 0, code |-> name]

OkRes == [kind |-> "ok", status |-> 200, code |-> "OK"]

NoRes == [kind |-> "none", status |-> 0, code |-> "none"]

IsOk(r) == r.kind = "ok"

-----------------------------------------------------------------------------
(* The values each part of the state has while a specification does not use it. *)

NoItem == [present |-> FALSE, name |-> <<>>, parent |-> 0, folder |-> FALSE]

NoEnv == [files |-> 0, renames |-> 0, moves |-> 0]

DriveIdle == upItems = <<>> /\ upEnv = NoEnv

ProcIdle == proc = <<>>

DlIdle == dl = <<>>

LsIdle == ls = <<>>

JwtIdle == jwt = <<>>

HttpIdle == http = <<>>

CuIdle == cu = <<>>

RtIdle == rt = <<>>

StIdle == ds = <<>>

PathIdle == pthPrefix = <<>> /\ pthFull = <<>> /\ pthRes = NoRes

BkIdle == bk = <<>>

UiIdle == ui = <<>>

ObIdle == ob = <<>>

TwIdle == tw = <<>>

LcIdle == lc = <<>>

JkIdle == jk = <<>>

CxIdle == cx = <<>>

UmIdle == um = <<>>

FinalIdle == JkIdle /\ CxIdle /\ UmIdle

LateIdle == BkIdle /\ UiIdle /\ ObIdle /\ TwIdle /\ LcIdle /\ FinalIdle

lateVars == <<bk, ui, ob, tw, lc>>

EarlyIdle ==
    PathIdle /\ DriveIdle /\ ProcIdle /\ DlIdle /\ LsIdle /\ JwtIdle /\ HttpIdle /\ CuIdle
    /\ RtIdle /\ StIdle

earlyVars == <<pathVars, driveVars, proc, dl, ls, jwt, http, cu, rt, ds>>

BrokerOnly == EarlyIdle /\ UiIdle /\ ObIdle /\ TwIdle /\ LcIdle /\ FinalIdle

IdentityOnly == EarlyIdle /\ BkIdle /\ ObIdle /\ TwIdle /\ LcIdle /\ FinalIdle

ObjectStoreOnly == EarlyIdle /\ BkIdle /\ UiIdle /\ TwIdle /\ LcIdle /\ FinalIdle

ToolOnly == EarlyIdle /\ BkIdle /\ UiIdle /\ ObIdle /\ LcIdle /\ FinalIdle

ConfigOnly == EarlyIdle /\ BkIdle /\ UiIdle /\ ObIdle /\ TwIdle /\ FinalIdle

OutsideBroker == UNCHANGED <<earlyVars, ui, ob, tw, lc, finalVars>>

OutsideIdentity == UNCHANGED <<earlyVars, bk, ob, tw, lc, finalVars>>

OutsideObjectStore == UNCHANGED <<earlyVars, bk, ui, tw, lc, finalVars>>

OutsideTool == UNCHANGED <<earlyVars, bk, ui, ob, lc, finalVars>>

OutsideConfig == UNCHANGED <<earlyVars, bk, ui, ob, tw, finalVars>>

MidIdle == BkIdle /\ UiIdle /\ ObIdle /\ TwIdle /\ LcIdle

JwksOnly == EarlyIdle /\ MidIdle /\ CxIdle /\ UmIdle

ContextOnly == EarlyIdle /\ MidIdle /\ JkIdle /\ UmIdle

OutsideJwks == UNCHANGED <<earlyVars, lateVars, cx, um>>

OutsideContext == UNCHANGED <<earlyVars, lateVars, jk, um>>

PathOnly ==
    DriveIdle /\ ProcIdle /\ DlIdle /\ LsIdle /\ JwtIdle /\ HttpIdle /\ CuIdle /\ RtIdle /\ StIdle
    /\ LateIdle

ProvisionOnly ==
    PathIdle /\ DlIdle /\ LsIdle /\ JwtIdle /\ HttpIdle /\ CuIdle /\ RtIdle /\ StIdle
    /\ LateIdle

DownloadOnly ==
    PathIdle /\ ProcIdle /\ LsIdle /\ JwtIdle /\ HttpIdle /\ CuIdle /\ RtIdle /\ StIdle
    /\ LateIdle

ListOnly ==
    PathIdle /\ ProcIdle /\ DlIdle /\ JwtIdle /\ HttpIdle /\ CuIdle /\ RtIdle /\ StIdle
    /\ LateIdle

JwtOnly ==
    PathIdle /\ DriveIdle /\ ProcIdle /\ DlIdle /\ LsIdle /\ HttpIdle /\ CuIdle /\ RtIdle /\ StIdle
    /\ LateIdle

HttpOnly ==
    PathIdle /\ DriveIdle /\ ProcIdle /\ DlIdle /\ LsIdle /\ CuIdle /\ RtIdle /\ StIdle
    /\ LateIdle

OutsidePath ==
    UNCHANGED <<driveVars, proc, dl, ls, jwt, http, cu, rt, ds,
        bk, ui, ob, tw, lc, finalVars>>

OutsideProvision ==
    UNCHANGED <<pathVars, dl, ls, jwt, http, cu, rt, ds,
        bk, ui, ob, tw, lc, finalVars>>

OutsideDownload ==
    UNCHANGED <<pathVars, proc, ls, jwt, http, cu, rt, ds,
        bk, ui, ob, tw, lc, finalVars>>

OutsideList ==
    UNCHANGED <<pathVars, proc, dl, jwt, http, cu, rt, ds,
        bk, ui, ob, tw, lc, finalVars>>

OutsideJwt ==
    UNCHANGED <<pathVars, driveVars, proc, dl, ls, http, cu, rt, ds,
        bk, ui, ob, tw, lc, finalVars>>

OutsideHttp ==
    UNCHANGED <<pathVars, driveVars, proc, dl, ls, cu, rt, ds,
        bk, ui, ob, tw, lc, finalVars>>

CursorOnly ==
    PathIdle /\ DriveIdle /\ ProcIdle /\ DlIdle /\ LsIdle /\ JwtIdle /\ HttpIdle /\ RtIdle /\ StIdle
    /\ LateIdle

RetryOnly ==
    PathIdle /\ DriveIdle /\ ProcIdle /\ DlIdle /\ LsIdle /\ JwtIdle /\ HttpIdle /\ CuIdle /\ StIdle
    /\ LateIdle

StoreOnly ==
    PathIdle /\ DriveIdle /\ ProcIdle /\ DlIdle /\ LsIdle /\ JwtIdle /\ HttpIdle /\ CuIdle /\ RtIdle
    /\ LateIdle

OutsideCursor ==
    UNCHANGED <<pathVars, driveVars, proc, dl, ls, jwt, http, rt, ds,
        bk, ui, ob, tw, lc, finalVars>>

OutsideRetry ==
    UNCHANGED <<pathVars, driveVars, proc, dl, ls, jwt, http, cu, ds,
        bk, ui, ob, tw, lc, finalVars>>

OutsideStore ==
    UNCHANGED <<pathVars, driveVars, proc, dl, ls, jwt, http, cu, rt,
        bk, ui, ob, tw, lc, finalVars>>

-----------------------------------------------------------------------------
(* String primitives (String.prototype.startsWith / endsWith). *)

startsWith(s, pre) == Len(pre) <= Len(s) /\ SubSeq(s, 1, Len(pre)) = pre

endsWith(s, suf) == Len(suf) <= Len(s) /\ SubSeq(s, Len(s) - Len(suf) + 1, Len(s)) = suf

SEP == <<"/">>

\* All strings over alphabet A of length at most n
StrUpTo(A, n) == UNION {[1..k -> A] : k \in 0..n}

-----------------------------------------------------------------------------
(* sharepoint/scope.ts: containment tests *)

\* A plausible slip: the separator is not appended to the prefix
pathStartsWith_NoSeparator(prefix, fullPath) ==
    fullPath = prefix \/ startsWith(fullPath, prefix)

pathStartsWith(prefix, fullPath) ==
    fullPath = prefix
    \/ startsWith(fullPath, IF endsWith(prefix, SEP) THEN prefix ELSE prefix \o SEP)

\* validateItemIsWithinInput: throws Forbidden unless the path is in the input subtree
validateItemIsWithinInput(scope, fullPath) ==
    IF ~(fullPath = scope.inputPrefix \/ startsWith(fullPath, scope.inputPrefix \o SEP))
    THEN AppError(403, "Forbidden")
    ELSE OkRes

\* validateItemIsWithinOutput: the same test against the output prefix
validateItemIsWithinOutput(scope, fullPath) ==
    IF ~(fullPath = scope.outputPrefix \/ startsWith(fullPath, scope.outputPrefix \o SEP))
    THEN AppError(403, "Forbidden")
    ELSE OkRes

-----------------------------------------------------------------------------
(* The upstream drive (Microsoft Graph driveItems), as the gateway sees it. *)

\* config.DRIVE_ID and config.SITE_ID
DRIVE_ID == "drive-1"

SITE_ID == "site-1"

MaxItems == 7

ItemIds == 1..MaxItems

\* parentReference.path of the items directly under the drive root
ROOT == <<"root:">>

\* The smallest unused item id (ids are opaque; the drive picks them)
FreeId(items) == CHOOSE i \in ItemIds : ~items[i].present /\ \A j \in 1..(i - 1) : items[j].present

HasFreeId(items) == \E i \in ItemIds : ~items[i].present

\* GET /drives/{d}/root:/{name} and /drives/{d}/items/{parent}:/{name}: the id of
\* the child of that name, 0 for 404
upLookup(items, parent, name) ==
    LET S == {i \in ItemIds : items[i].present /\ items[i].parent = parent /\ items[i].name = name}
    IN IF S = {} THEN 0 ELSE CHOOSE i \in S : TRUE

\* The canonical path of folder id (0 is the drive root)
RECURSIVE upPath(_, _)
upPath(items, id) ==
    IF id = 0 THEN ROOT ELSE upPath(items, items[id].parent) \o SEP \o items[id].name

\* The DriveItem the drive answers for item id ($select=id,name,parentReference,folder,...)
DriveItemOf(items, id) ==
    [id |-> id, name |-> items[id].name, driveId |-> DRIVE_ID,
     parentPath |-> upPath(items, items[id].parent), folder |-> items[id].folder]

NoDriveItem == [id |-> 0, name |-> <<>>, driveId |-> "", parentPath |-> <<>>, folder |-> FALSE]

\* sharepoint/driveItem.ts driveItemFullPath; null is the empty string here (both
\* are falsy and no computed path is empty)
driveItemFullPath(item) ==
    IF item.parentPath = <<>> \/ item.name = <<>> THEN <<>>
    ELSE item.parentPath \o SEP \o item.name

\* POST .../children {name, folder: {}, conflictBehavior}: the drive after the
\* request and the id it answers with (0 with status 409)
upCreateFolder(items, parent, name) ==
    IF upLookup(items, parent, name) # 0
    THEN [status |-> 409, id |-> 0, items |-> items]
    ELSE LET id == FreeId(items)
         IN [status |-> 201, id |-> id,
             items |-> [items EXCEPT ![id] = [present |-> TRUE, name |-> name, parent |-> parent, folder |-> TRUE]]]

\* Statuses a request can end with once the retry middleware gave up or passed it on
UpFailStatuses == {503}

\* graph.request: the typed error for a response that is not ok
graphRequestError(status) ==
    CASE status = 404 -> AppError(404, "NotFound")
      [] status = 403 -> AppError(403, "Forbidden")
      [] status = 429 -> AppError(429, "TooManyRequests")
      [] OTHER -> AppError(status, "GraphError")

-----------------------------------------------------------------------------
(* SpecPath: the containment tests applied to arbitrary bounded strings. *)

MaxPathLen == 3

PathAtoms == {"/", "a", "b"}

PathStrings == StrUpTo(PathAtoms, MaxPathLen)

PathInit ==
    /\ PathOnly
    /\ pthPrefix \in PathStrings
    /\ pthFull \in PathStrings
    /\ pthRes = NoRes

\* Apply the three tests to (pthPrefix, pthFull)
PathCheck ==
    /\ pthRes = NoRes
    /\ pthRes' = [kind |-> "tested",
                  psw |-> pathStartsWith(pthPrefix, pthFull),
                  inp |-> validateItemIsWithinInput([inputPrefix |-> pthPrefix], pthFull),
                  out |-> validateItemIsWithinOutput([outputPrefix |-> pthPrefix], pthFull)]
    /\ UNCHANGED <<pthPrefix, pthFull>>
    /\ OutsidePath

PathNext == PathCheck

SpecPath == PathInit /\ [][PathNext]_vars

\* p equals q, or p is q, then the separator, then anything
Contained(q, p) ==
    p = q \/ \E i \in 1..Len(p) : SubSeq(p, 1, i) = q \o SEP

PathTested == pthRes.kind = "tested"

\* C5 as stated: every containment test holds iff p = q or p starts with q + "/"
C5_AsStated ==
    PathTested =>
        /\ pthRes.psw <=> Contained(pthPrefix, pthFull)
        /\ IsOk(pthRes.inp) <=> Contained(pthPrefix, pthFull)
        /\ IsOk(pthRes.out) <=> Contained(pthPrefix, pthFull)

\* C5 amended: validateItemIsWithinInput/Output hold iff p = q or p starts with
\* q + "/"; pathStartsWith holds iff that, or q itself ends with "/" and p starts
\* with q; so for a prefix that does not end with the separator all three tests
\* agree and q + "evil" is never contained.
C5_Containment ==
    PathTested =>
        /\ IsOk(pthRes.inp) <=> Contained(pthPrefix, pthFull)
        /\ IsOk(pthRes.out) <=> Contained(pthPrefix, pthFull)
        /\ ~IsOk(pthRes.inp) => (pthRes.inp.status = 403 /\ pthRes.inp.code = "Forbidden")
        /\ ~IsOk(pthRes.out) => (pthRes.out.status = 403 /\ pthRes.out.code = "Forbidden")
        /\ pthRes.psw <=>
              \/ Contained(pthPrefix, pthFull)
              \/ /\ pthPrefix # <<>>
                 /\ pthPrefix[Len(pthPrefix)] = "/"
                 /\ \E i \in 0..Len(pthFull) : SubSeq(pthFull, 1, i) = pthPrefix

\* C5 witness: q + "b" (no separator) was tested and is not contained
C5_Witness ==
    /\ PathTested
    /\ pthPrefix = <<"a">>
    /\ pthFull = <<"a", "b">>
    /\ ~pthRes.psw
    /\ ~IsOk(pthRes.inp)

-----------------------------------------------------------------------------
(* sharepoint/userFolders.ts and sharepoint/scope.ts: per-user provisioning. *)

BASE_FOLDER_NAME == <<"Base">>

UserKeys == {<<"alice">>}

\* The two concurrent calls of initUserScope
Procs == {1, 2}

\* Levels of the folder set: 1 base, 2 user, 3 input, 4 output
LevelName(pr, l) ==
    CASE l = 1 -> BASE_FOLDER_NAME
      [] l = 2 -> pr.key
      [] l = 3 -> <<"input">>
      [] l = 4 -> <<"output">>

\* The folder under which level l is looked up and created (0: the drive root)
LevelParent(pr, l) ==
    CASE l = 1 -> 0
      [] l = 2 -> pr.item[1].id
      [] l = 3 -> pr.item[2].id
      [] l = 4 -> pr.item[2].id

NoScope == [driveId |-> "", siteId |-> "", baseFolderId |-> 0, basePrefix |-> <<>>,
            userFolderId |-> 0, userPrefix |-> <<>>, inputFolderId |-> 0,
            outputFolderId |-> 0, inputPrefix |-> <<>>, outputPrefix |-> <<>>,
            userKey |-> <<>>]

InitProc(k) ==
    [pc |-> "drive", level |-> 1, key |-> k,
     item |-> [l \in 1..4 |-> NoDriveItem],
     via |-> [l \in 1..4 |-> "none"],
     res |-> NoRes, scope |-> NoScope, faulted |-> FALSE]

\* A plausible slip: the type of the fetched entity is not asserted
assertIsFolder_Skipped(item) == OkRes

\* assertIsFolder: Conflict when the entity is not a folder
assertIsFolder(item) ==
    IF ~item.folder THEN AppError(409, "Conflict") ELSE OkRes

\* A plausible slip: the output folder's nesting is not checked
scopeCheck_NoOutputCheck(basePrefix, userPrefix, inputPrefix, outputPrefix) ==
    IF basePrefix = <<>> \/ userPrefix = <<>> \/ inputPrefix = <<>> \/ outputPrefix = <<>>
    THEN AppError(500, "InternalError")
    ELSE IF ~pathStartsWith(basePrefix, userPrefix) THEN AppError(403, "Forbidden")
    ELSE IF ~pathStartsWith(userPrefix, inputPrefix) THEN AppError(403, "Forbidden")
    ELSE OkRes

\* initUserScope, the checks on the four computed prefixes
scopeCheck(basePrefix, userPrefix, inputPrefix, outputPrefix) ==
    IF basePrefix = <<>> \/ userPrefix = <<>> \/ inputPrefix = <<>> \/ outputPrefix = <<>>
    THEN AppError(500, "InternalError")
    ELSE IF ~pathStartsWith(basePrefix, userPrefix) THEN AppError(403, "Forbidden")
    ELSE IF ~pathStartsWith(userPrefix, inputPrefix) THEN AppError(403, "Forbidden")
    ELSE IF ~pathStartsWith(userPrefix, outputPrefix) THEN AppError(403, "Forbidden")
    ELSE OkRes

\* initUserScope after ensureUserFolders returned the four folders in pr.item
initUserScopeFinish(pr) ==
    LET basePrefix == driveItemFullPath(pr.item[1])
        userPrefix == driveItemFullPath(pr.item[2])
        inputPrefix == driveItemFullPath(pr.item[3])
        outputPrefix == driveItemFullPath(pr.item[4])
        chk == scopeCheck(basePrefix, userPrefix, inputPrefix, outputPrefix)
    IN IF ~IsOk(chk)
       THEN [pr EXCEPT !.pc = "done", !.res = chk]
       ELSE [pr EXCEPT !.pc = "done", !.res = OkRes,
                       !.scope = [driveId |-> DRIVE_ID, siteId |-> SITE_ID,
                                  baseFolderId |-> pr.item[1].id, basePrefix |-> basePrefix,
                                  userFolderId |-> pr.item[2].id, userPrefix |-> userPrefix,
                                  inputFolderId |-> pr.item[3].id,
                                  outputFolderId |-> pr.item[4].id,
                                  inputPrefix |-> inputPrefix, outputPrefix |-> outputPrefix,
                                  userKey |-> pr.key]]

\* ensureUserFolders once level l yielded `item`: assert it is a folder, then go
\* on with the next level, or return to initUserScope after the fourth
ensureStep(pr, l, item, how) ==
    LET pr1 == [pr EXCEPT !.item[l] = item, !.via[l] = how]
        chk == assertIsFolder(item)
    IN IF ~IsOk(chk) THEN [pr1 EXCEPT !.pc = "done", !.res = chk]
       ELSE IF l < 4 THEN [pr1 EXCEPT !.pc = "get", !.level = l + 1]
       ELSE initUserScopeFinish(pr1)

\* The call ends with err; what it held is dropped with its stack frame
Throw(pr, err) == [InitProc(pr.key) EXCEPT !.pc = "done", !.res = err]

\* A plausible slip: a creation conflict is treated like any other failure
createResponseStep_ConflictFails(status) ==
    IF status < 200 \/ status > 299 THEN "throw" ELSE "return"

\* createFolderUnderRoot / createFolderUnderItem, after the POST was answered
createResponseStep(status) ==
    IF status = 409 THEN "refetch"
    ELSE IF status < 200 \/ status > 299 THEN "throw"
    ELSE "return"

\* ensureDriveInSite: GET /sites/{site}/drives/{drive}
ProcDrive(p) ==
    /\ proc[p].pc = "drive"
    /\ \/ proc' = [proc EXCEPT ![p].pc = "get"]
       \/ \E st \in UpFailStatuses :
            proc' = [proc EXCEPT ![p] = [Throw(@, graphRequestError(st)) EXCEPT !.faulted = TRUE]]
    /\ UNCHANGED driveVars
    /\ OutsideProvision

\* getFolderUnderRoot / getFolderUnderItem (getByPath) for the current level
ProcGet(p) ==
    LET pr == proc[p]
        id == upLookup(upItems, LevelParent(pr, pr.level), LevelName(pr, pr.level))
    IN /\ pr.pc = "get"
       /\ \/ proc' = [proc EXCEPT ![p] =
                        IF id = 0 THEN [pr EXCEPT !.pc = "create"]
                        ELSE ensureStep(pr, pr.level, DriveItemOf(upItems, id), "lookup")]
          \/ \E st \in UpFailStatuses :
               proc' = [proc EXCEPT ![p] =
                          [Throw(pr, AppError(st, "GraphError")) EXCEPT !.faulted = TRUE]]
       /\ UNCHANGED driveVars
       /\ OutsideProvision

\* createFolderUnderRoot / createFolderUnderItem: the POST and what follows its answer
ProcCreate(p) ==
    LET pr == proc[p]
        r == upCreateFolder(upItems, LevelParent(pr, pr.level), LevelName(pr, pr.level))
    IN /\ pr.pc = "create"
       /\ HasFreeId(upItems)
       /\ \/ /\ upItems' = r.items
             /\ proc' = [proc EXCEPT ![p] =
                  CASE createResponseStep(r.status) = "refetch" -> [pr EXCEPT !.pc = "refetch"]
                    [] createResponseStep(r.status) = "throw" ->
                         Throw(pr, AppError(r.status, "GraphError"))
                    [] OTHER ->
                         ensureStep(pr, pr.level, DriveItemOf(r.items, r.id), "created")]
          \/ \E st \in UpFailStatuses :
               /\ proc' = [proc EXCEPT ![p] =
                             [Throw(pr, AppError(st, "GraphError")) EXCEPT !.faulted = TRUE]]
               /\ UNCHANGED upItems
       /\ UNCHANGED upEnv
       /\ OutsideProvision

\* createFolderUnder*: the re-fetch after a 409
ProcRefetch(p) ==
    LET pr == proc[p]
        id == upLookup(upItems, LevelParent(pr, pr.level), LevelName(pr, pr.level))
    IN /\ pr.pc = "refetch"
       /\ \/ proc' = [proc EXCEPT ![p] =
                        IF id = 0 THEN Throw(pr, AppError(409, "GraphError"))
                        ELSE ensureStep(pr, pr.level, DriveItemOf(upItems, id), "refetch")]
          \/ \E st \in UpFailStatuses :
               proc' = [proc EXCEPT ![p] =
                          [Throw(pr, AppError(st, "GraphError")) EXCEPT !.faulted = TRUE]]
       /\ UNCHANGED driveVars
       /\ OutsideProvision

\* How many times other clients of the drive interfere
MaxEnvActs == 1

\* The (parent, name) pairs the gateway looks up: only an item there is ever seen
ProvisionSlots(items) ==
    {<<0, BASE_FOLDER_NAME>>}
    \cup {<<b, k>> : b \in {i \in ItemIds : items[i].present /\ items[i].parent = 0}, k \in UserKeys}
    \cup {<<u, n>> : u \in {i \in ItemIds : items[i].present /\ items[i].parent # 0},
                     n \in {<<"input">>, <<"output">>}}

PresentFolders(items) == {i \in ItemIds : items[i].present /\ items[i].folder}

\* Another client of the drive uploads a file whose name is one the gateway uses
EnvCreateFile ==
    /\ upEnv.files + upEnv.renames + upEnv.moves < MaxEnvActs
    /\ HasFreeId(upItems)
    /\ \E slot \in ProvisionSlots(upItems) :
         /\ IF slot[1] = 0 THEN TRUE ELSE upItems[slot[1]].folder
         /\ upLookup(upItems, slot[1], slot[2]) = 0
         /\ upItems' = [upItems EXCEPT ![FreeId(upItems)] =
                          [present |-> TRUE, name |-> slot[2], parent |-> slot[1], folder |-> FALSE]]
    /\ upEnv' = [upEnv EXCEPT !.files = @ + 1]
    /\ UNCHANGED proc
    /\ OutsideProvision

\* Another client of the drive renames a folder the gateway uses
EnvRenameFolder ==
    /\ upEnv.files + upEnv.renames + upEnv.moves < MaxEnvActs
    /\ \E id \in PresentFolders(upItems) :
         LET n == upItems[id].name \o <<"evil">>
         IN /\ upItems[id].name \in {BASE_FOLDER_NAME, <<"input">>, <<"output">>} \cup UserKeys
            /\ upLookup(upItems, upItems[id].parent, n) = 0
            /\ upItems' = [upItems EXCEPT ![id].name = n]
    /\ upEnv' = [upEnv EXCEPT !.renames = @ + 1]
    /\ UNCHANGED proc
    /\ OutsideProvision

ProvisionInit ==
    /\ ProvisionOnly
    /\ upItems = [i \in ItemIds |-> NoItem]
    /\ upEnv = NoEnv
    /\ \E k \in [Procs -> UserKeys] : proc = [p \in Procs |-> InitProc(k[p])]

ProvisionNext ==
    \/ \E p \in Procs : ProcDrive(p)
    \/ \E p \in Procs : ProcGet(p)
    \/ \E p \in Procs : ProcCreate(p)
    \/ \E p \in Procs : ProcRefetch(p)
    \/ EnvCreateFile
    \/ EnvRenameFolder

SpecProvision == ProvisionInit /\ [][ProvisionNext]_vars

AllProvisioned == \A p \in Procs : proc[p].pc = "done"

\* The folder set a call holds is nested as the Scope invariant demands
NestedFolders(pr) ==
    /\ Contained(driveItemFullPath(pr.item[1]), driveItemFullPath(pr.item[2]))
    /\ Contained(driveItemFullPath(pr.item[2]), driveItemFullPath(pr.item[3]))
    /\ Contained(driveItemFullPath(pr.item[2]), driveItemFullPath(pr.item[4]))

\* C7: every Scope returned by initUserScope has userPrefix contained in basePrefix
\* and inputPrefix and outputPrefix contained in userPrefix; when the metadata of
\* the four folders violates the nesting, the call fails with a typed error and
\* returns no Scope.
C7_ScopeNesting ==
    \A p \in Procs :
        LET pr == proc[p] IN
        /\ pr.scope # NoScope =>
              /\ pr.pc = "done" /\ IsOk(pr.res)
              /\ pr.scope.basePrefix # <<>>
              /\ Contained(pr.scope.basePrefix, pr.scope.userPrefix)
              /\ Contained(pr.scope.userPrefix, pr.scope.inputPrefix)
              /\ Contained(pr.scope.userPrefix, pr.scope.outputPrefix)
        /\ (pr.pc = "done" /\ IsOk(pr.res)) => pr.scope # NoScope
        /\ (pr.pc = "done" /\ pr.item[4].id # 0 /\ ~NestedFolders(pr)) =>
              /\ pr.res.kind = "AppError"
              /\ pr.scope = NoScope

\* C7 witness: one call returned a Scope, the other held four folders whose paths
\* were not nested (the base folder was renamed in between) and failed Forbidden
C7_Witness ==
    \E p, q \in Procs :
        /\ proc[p].pc = "done" /\ IsOk(proc[p].res) /\ proc[p].scope # NoScope
        /\ proc[q].pc = "done" /\ proc[q].item[4].id # 0
        /\ \A l \in 1..4 : proc[q].item[l].folder
        /\ ~NestedFolders(proc[q])
        /\ proc[q].res = AppError(403, "Forbidden")

PresentItems == {i \in ItemIds : upItems[i].present}

\* C8: two concurrent calls for the same user key, with no other client touching
\* the drive and no request failing, both succeed with the same four folders and
\* equal Scopes, and the drive holds exactly one folder of each name; at no time
\* do two items share a parent and a name.
C8_ConcurrentProvisioning ==
    /\ \A i, j \in PresentItems :
          (upItems[i].parent = upItems[j].parent /\ upItems[i].name = upItems[j].name) => i = j
    /\ (/\ AllProvisioned
        /\ \A p, q \in Procs : proc[p].key = proc[q].key
        /\ upEnv.files = 0 /\ upEnv.renames = 0
        /\ \A p \in Procs : ~proc[p].faulted)
       => /\ \A p \in Procs : IsOk(proc[p].res)
          /\ \A p, q \in Procs :
                /\ proc[p].item = proc[q].item
                /\ proc[p].scope = proc[q].scope
          /\ \A p \in Procs, l \in 1..4 :
                /\ proc[p].item[l].folder
                /\ proc[p].item[l].name = LevelName(proc[p], l)
                /\ proc[p].via[l] \in {"lookup", "created", "refetch"}
          /\ Cardinality(PresentItems) = 4
          /\ \A i \in PresentItems : upItems[i].folder

\* C8 witness: both calls succeeded and one of them resolved a 409 by re-fetching
C8_Witness ==
    /\ AllProvisioned
    /\ upEnv.files = 0 /\ upEnv.renames = 0
    /\ \A p \in Procs : IsOk(proc[p].res)
    /\ \E p \in Procs, l \in 1..4 : proc[p].via[l] = "refetch"
    /\ \E p \in Procs, l \in 1..4 : proc[p].via[l] = "created"

\* Names a folder of the drive can carry: the requested ones, or one renamed by
\* another client
KnownNames ==
    LET req == {BASE_FOLDER_NAME, <<"input">>, <<"output">>} \cup UserKeys
    IN req \cup {n \o <<"evil">> : n \in req}

\* C9: a non-folder found under one of the four names, by the first lookup or by
\* the re-fetch after a 409, ends the call with Conflict (409) and no Scope; a
\* successful call holds four folders carrying exactly the requested names, and
\* no item is ever created under another name.
C9_NonFolderConflict ==
    /\ \A p \in Procs, l \in 1..4 :
          (proc[p].item[l].id # 0 /\ ~proc[p].item[l].folder) =>
              /\ proc[p].pc = "done"
              /\ proc[p].res = AppError(409, "Conflict")
              /\ proc[p].via[l] \in {"lookup", "refetch"}
              /\ proc[p].scope = NoScope
    /\ \A p \in Procs :
          (proc[p].pc = "done" /\ IsOk(proc[p].res)) =>
              \A l \in 1..4 :
                  /\ proc[p].item[l].folder
                  /\ proc[p].item[l].name = LevelName(proc[p], l)
    /\ \A i \in PresentItems : upItems[i].name \in KnownNames

\* C9 witness: the re-fetch after a creation conflict found a file and the call
\* ended with Conflict
C9_Witness ==
    \E p \in Procs, l \in 1..4 :
        /\ proc[p].via[l] = "refetch"
        /\ proc[p].item[l].id # 0
        /\ ~proc[p].item[l].folder
        /\ proc[p].res = AppError(409, "Conflict")

-----------------------------------------------------------------------------
(* tools/sp_download_protocol.ts and fetchAndValidateDriveItem. *)

\* A plausible slip: the input-subtree check of download mode is left out
fetchAndValidateDriveItem_NoInputCheck(scope, item, mode) ==
    LET fullPath == driveItemFullPath(item)
    IN IF item.driveId # "" /\ item.driveId # scope.driveId THEN AppError(403, "Forbidden")
       ELSE IF fullPath = <<>> THEN AppError(403, "Forbidden")
       ELSE IF scope.basePrefix # <<>> /\ ~pathStartsWith(scope.basePrefix, fullPath)
            THEN AppError(403, "Forbidden")
       ELSE OkRes

\* fetchAndValidateDriveItem, the checks on the metadata the drive answered
fetchAndValidateDriveItem(scope, item, mode) ==
    LET fullPath == driveItemFullPath(item)
    IN IF item.driveId # "" /\ item.driveId # scope.driveId THEN AppError(403, "Forbidden")
       ELSE IF fullPath = <<>> THEN AppError(403, "Forbidden")
       ELSE IF scope.basePrefix # <<>> /\ ~pathStartsWith(scope.basePrefix, fullPath)
            THEN AppError(403, "Forbidden")
       ELSE IF mode = "download" /\ ~pathStartsWith(scope.inputPrefix, fullPath)
            THEN AppError(403, "Forbidden")
       ELSE OkRes

\* sp_download_protocol: the error for a content response that is not ok
downloadError(status) ==
    CASE status = 404 -> AppError(404, "NotFound")
      [] status = 403 -> AppError(403, "Forbidden")
      [] status = 429 -> AppError(429, "TooManyRequests")
      [] OTHER -> AppError(status, "GraphError")

DlCalls == {1, 2}

\* The drive once a user's folders are provisioned, with one transcript file
\* "doc" whose parent is fileParent: 1 Base, 2 alice, 3 input, 4 output, 5 doc
DlTree(fileParent) ==
    [i \in ItemIds |->
        CASE i = 1 -> [present |-> TRUE, name |-> BASE_FOLDER_NAME, parent |-> 0, folder |-> TRUE]
          [] i = 2 -> [present |-> TRUE, name |-> <<"alice">>, parent |-> 1, folder |-> TRUE]
          [] i = 3 -> [present |-> TRUE, name |-> <<"input">>, parent |-> 2, folder |-> TRUE]
          [] i = 4 -> [present |-> TRUE, name |-> <<"output">>, parent |-> 2, folder |-> TRUE]
          [] i = 5 -> [present |-> TRUE, name |-> <<"doc">>, parent |-> fileParent, folder |-> FALSE]
          [] OTHER -> NoItem]

\* The Scope of that user: as initUserScope returns it (per-user mode), or as
\* initScope returns it (fixed mode, no base prefix)
DlScope(perUser) ==
    [driveId |-> DRIVE_ID, siteId |-> SITE_ID,
     baseFolderId |-> IF perUser THEN 1 ELSE 0,
     basePrefix |-> IF perUser THEN ROOT \o SEP \o BASE_FOLDER_NAME ELSE <<>>,
     userFolderId |-> IF perUser THEN 2 ELSE 0,
     userPrefix |-> IF perUser THEN ROOT \o SEP \o BASE_FOLDER_NAME \o SEP \o <<"alice">> ELSE <<>>,
     inputFolderId |-> 3, outputFolderId |-> 4,
     inputPrefix |-> ROOT \o SEP \o BASE_FOLDER_NAME \o SEP \o <<"alice">> \o SEP \o <<"input">>,
     outputPrefix |-> ROOT \o SEP \o BASE_FOLDER_NAME \o SEP \o <<"alice">> \o SEP \o <<"output">>,
     userKey |-> IF perUser THEN <<"alice">> ELSE <<>>]

\* Ids a client asks for: the input folder, the file, an id the drive does not know
DlRequestIds == {3, 5, 6}

InitDl == [pc |-> "start", id |-> 0, metaSeen |-> <<>>, metaPath |-> <<>>, res |-> NoRes,
           content |-> 0, pathAtContent |-> <<>>]

DlEnd(c, err) == [c EXCEPT !.pc = "done", !.res = err]

\* sp_download_protocol up to its second request: parse the input, fetch the item's
\* metadata from the drive, validate it against the scope, refuse folders
DlMeta(c) ==
    /\ dl.call[c].pc = "start"
    /\ \E id \in DlRequestIds, valid \in BOOLEAN, st \in {200} \cup UpFailStatuses :
         LET item == DriveItemOf(upItems, id)
             chk == fetchAndValidateDriveItem(dl.scope, item, "download")
             c1 == [dl.call[c] EXCEPT !.id = id]
             c0 == IF valid /\ st = 200 /\ upItems[id].present
                   THEN [c1 EXCEPT !.metaSeen = driveItemFullPath(item)] ELSE c1
         IN dl' = [dl EXCEPT !.call[c] =
              IF ~valid THEN DlEnd(c0, AppError(400, "ValidationError"))
              ELSE IF st # 200 THEN DlEnd(c0, graphRequestError(st))
              ELSE IF ~upItems[id].present THEN DlEnd(c0, graphRequestError(404))
              ELSE IF ~IsOk(chk) THEN DlEnd(c0, chk)
              ELSE IF item.folder THEN DlEnd(c0, AppError(400, "BadRequest"))
              ELSE [c0 EXCEPT !.pc = "content", !.metaPath = driveItemFullPath(item)]]
    /\ UNCHANGED driveVars
    /\ OutsideDownload

\* sp_download_protocol: GET /drives/{d}/items/{id}/content and the result
DlContent(c) ==
    /\ dl.call[c].pc = "content"
    /\ \E st \in {200, 429} \cup UpFailStatuses :
         LET c0 == dl.call[c]
         IN dl' = [dl EXCEPT !.call[c] =
              IF st # 200 THEN DlEnd(c0, downloadError(st))
              ELSE IF ~upItems[c0.id].present THEN DlEnd(c0, downloadError(404))
              ELSE [c0 EXCEPT !.pc = "done", !.res = OkRes, !.content = c0.id,
                              !.pathAtContent = driveItemFullPath(DriveItemOf(upItems, c0.id))]]
    /\ UNCHANGED driveVars
    /\ OutsideDownload

\* Another client of the drive moves a file to another folder (or to the root)
EnvMoveItem ==
    /\ upEnv.files + upEnv.renames + upEnv.moves < MaxEnvActs
    /\ \E id \in {i \in ItemIds : upItems[i].present /\ ~upItems[i].folder},
          to \in {0} \cup PresentFolders(upItems) :
         /\ to # upItems[id].parent
         /\ upLookup(upItems, to, upItems[id].name) = 0
         /\ upItems' = [upItems EXCEPT ![id].parent = to]
    /\ upEnv' = [upEnv EXCEPT !.moves = @ + 1]
    /\ UNCHANGED dl
    /\ OutsideDownload

DownloadInit ==
    /\ DownloadOnly
    /\ \E fileParent \in {0, 1, 3, 4} : upItems = DlTree(fileParent)
    /\ upEnv = NoEnv
    /\ \E perUser \in BOOLEAN :
         dl = [scope |-> DlScope(perUser), call |-> [c \in DlCalls |-> InitDl]]

DownloadNext ==
    \/ \E c \in DlCalls : DlMeta(c)
    \/ \E c \in DlCalls : DlContent(c)
    \/ EnvMoveItem
    \/ EnvRenameFolder

SpecDownload == DownloadInit /\ [][DownloadNext]_vars

\* C6: sp_download_protocol never returns the content of an item whose canonical
\* path, when the content is read, lies outside the scope's input prefix (or, in
\* per-user mode, outside the base prefix), also when the item is moved or a
\* folder renamed while the call is in progress
C6_AsStated ==
    \A c \in DlCalls :
        (dl.call[c].pc = "done" /\ IsOk(dl.call[c].res)) =>
            /\ Contained(dl.scope.inputPrefix, dl.call[c].pathAtContent)
            /\ dl.scope.basePrefix # <<>> =>
                  Contained(dl.scope.basePrefix, dl.call[c].pathAtContent)

\* C6 amended: every call validates the metadata it fetched itself and requests
\* the content only of an item whose canonical path in that metadata lies inside
\* the input prefix (and, in per-user mode, the base prefix); a call that finds the
\* item outside ends Forbidden, and no failed call returns content
C6_LiveMetadataCheck ==
    \A c \in DlCalls :
        LET k == dl.call[c] IN
        /\ k.pc \in {"content", "done"} /\ k.metaPath # <<>> =>
              /\ Contained(dl.scope.inputPrefix, k.metaPath)
              /\ dl.scope.basePrefix # <<>> => Contained(dl.scope.basePrefix, k.metaPath)
        /\ (k.pc = "done" /\ IsOk(k.res)) => (k.metaPath # <<>> /\ k.content = k.id)
        /\ ~IsOk(k.res) => k.content = 0
        /\ (k.pc = "done" /\ k.metaSeen # <<>>
              /\ ~Contained(dl.scope.inputPrefix, k.metaSeen)) =>
                 k.res = AppError(403, "Forbidden")

\* C6 witness: one call returned the file; the file was then moved out of the
\* input folder and the other call, for the same id, ended Forbidden
C6_Witness ==
    \E c, d \in DlCalls :
        /\ dl.call[c].pc = "done" /\ IsOk(dl.call[c].res)
        /\ dl.call[d].pc = "done" /\ dl.call[d].id = dl.call[c].id
        /\ dl.call[d].res = AppError(403, "Forbidden")
        /\ upEnv.moves = 1

-----------------------------------------------------------------------------
(* utils/cursor.ts: the pagination cursor and the continuation links in it. *)

\* `${id}` in a URL template: an item id as text
IdStr(i) == ToString(i)

GRAPH_HOST == "graph.microsoft.com"

\* `/v1.0/drives/${driveId}/items/${inputFolderId}/children` as a URL pathname
childrenPath(driveId, inputFolderId) ==
    <<"/", "v1.0", "/", "drives", "/", driveId, "/", "items", "/",
      IdStr(inputFolderId), "/", "children">>

\* A continuation link: null, text that new URL() rejects ("invalid"), or a URL
\* with host, pathname and the paging position carried in its query
NullLink == [kind |-> "null", host |-> "", path |-> <<>>, skip |-> 0, top |-> 0]

UrlLink(host, path, skip, top) ==
    [kind |-> "url", host |-> host, path |-> path, skip |-> skip, top |-> top]

InvalidLink == [kind |-> "invalid", host |-> "", path |-> <<>>, skip |-> 0, top |-> 0]

\* The empty string: a value that is not null and that `if (nextLink)` takes for false
EmptyLink == [kind |-> "empty", host |-> "", path |-> <<>>, skip |-> 0, top |-> 0]

\* if (nextLink), !nextLink, nextLink || ...: null and "" count as false
Truthy(nextLink) == nextLink.kind \notin {"null", "empty"}

\* A JSON array whose one element is the text of a URL: `${value}` of it, which
\* is what new URL(value) parses, is that URL, while the value is no string
ArrayLink(host, path, skip, top) ==
    [kind |-> "array", host |-> host, path |-> path, skip |-> skip, top |-> top]

\* A plausible slip: the host of the link is not compared
validateNextLinkIsSafe_NoHostCheck(nextLink, driveId, inputFolderId) ==
    IF nextLink.kind \in {"invalid", "empty"} THEN AppError(400, "ValidationError")
    ELSE IF ~startsWith(nextLink.path, <<"/", "v1.0", "/">>) THEN AppError(403, "Forbidden")
    ELSE IF ~startsWith(nextLink.path, childrenPath(driveId, inputFolderId))
         THEN AppError(403, "Forbidden")
    ELSE OkRes

\* validateNextLinkIsSafe: OkRes where the function returns, else what it throws
validateNextLinkIsSafe(nextLink, driveId, inputFolderId) ==
    IF nextLink.kind \in {"invalid", "empty"} THEN AppError(400, "ValidationError")
    ELSE IF nextLink.host # GRAPH_HOST THEN AppError(403, "Forbidden")
    ELSE IF ~startsWith(nextLink.path, <<"/", "v1.0", "/">>) THEN AppError(403, "Forbidden")
    ELSE IF ~startsWith(nextLink.path, childrenPath(driveId, inputFolderId))
         THEN AppError(403, "Forbidden")
    ELSE OkRes

\* The value a decoded cursor is; the fields are whatever the JSON text held
CursorV1(v, nextLink, buffer, bufferIsArray, driveId, inputFolderId, modifiedAfter) ==
    [v |-> v, nextLink |-> nextLink, buffer |-> buffer, bufferIsArray |-> bufferIsArray,
     driveId |-> driveId, inputFolderId |-> inputFolderId, modifiedAfter |-> modifiedAfter]

NoCursor == CursorV1(0, NullLink, <<>>, FALSE, "", 0, "null")

\* Values of buffer elements that are no list items: JSON null, and undefined,
\* which a JavaScript array can hold and JSON text cannot
JsNull == 0

JsUndefined == 0 - 1

\* The cursor as the client holds it: base64url text that decodes to JSON text of
\* an object ("object"), of null ("null"), or to no JSON at all ("garbage").
\* canonical: the text is spelled the way JSON.stringify and toString("base64url")
\* spell it (no padding, no white space, keys in the order of CursorV1)
CursorText(json, data) == [json |-> json, data |-> data, canonical |-> TRUE]

NoCursorText == CursorText("none", NoCursor)

\* The same cursor with "=" padding appended, which Buffer.from(.., "base64url")
\* accepts and ignores
Respelled(cursor) == [cursor EXCEPT !.canonical = FALSE]

\* JSON.stringify of a cursor structure, as the value its text denotes: an
\* undefined array element is written as null
JSONstringify(data) ==
    [data EXCEPT !.buffer = [i \in 1..Len(data.buffer) |->
                                IF data.buffer[i] = JsUndefined THEN JsNull ELSE data.buffer[i]]]

\* A plausible slip: a version-1 cursor is written with another version tag
encodeCursor_WrongVersion(data) == CursorText("object", [JSONstringify(data) EXCEPT !.v = 2])

\* encodeCursor: JSON.stringify, then base64url
encodeCursor(data) == CursorText("object", JSONstringify(data))

\* decodeCursor: the decoded object, or the ValidationError of its catch block
decodeCursor(cursor) ==
    IF cursor.json = "garbage" THEN [res |-> AppError(400, "ValidationError"), cur |-> NoCursor]
    ELSE IF cursor.json = "null" \/ cursor.data.v # 1
         THEN [res |-> AppError(400, "ValidationError"), cur |-> NoCursor]
    ELSE [res |-> OkRes, cur |-> cursor.data]

-----------------------------------------------------------------------------
(* The cursor codec on its own: each function applied to inputs of every kind. *)

\* Continuation links handed to validateNextLinkIsSafe: the bound listing, paths
\* that go on after it, other folders, drives, API versions and hosts, an array
\* holding a URL, and text that is no URL
CuLinks ==
    {InvalidLink,
     UrlLink(GRAPH_HOST, childrenPath(DRIVE_ID, 3), 1, 1),
     UrlLink(GRAPH_HOST, childrenPath(DRIVE_ID, 3) \o <<"/", "5", "/", "content">>, 0, 0),
     UrlLink(GRAPH_HOST, childrenPath(DRIVE_ID, 3) \o <<"-old">>, 0, 0),
     UrlLink(GRAPH_HOST, childrenPath(DRIVE_ID, 4), 1, 1),
     UrlLink(GRAPH_HOST, childrenPath("drive-2", 3), 1, 1),
     UrlLink(GRAPH_HOST, <<"/", "beta", "/">> \o childrenPath(DRIVE_ID, 3), 1, 1),
     UrlLink(GRAPH_HOST, <<"/", "v1.0", "/", "me">>, 0, 0),
     UrlLink("evil.example", childrenPath(DRIVE_ID, 3), 1, 1),
     UrlLink("graph.microsoft.com.evil.example", childrenPath(DRIVE_ID, 3), 1, 1),
     ArrayLink(GRAPH_HOST, childrenPath(DRIVE_ID, 3), 1, 1)}

\* Buffers of a CursorV1 (unknown[]): list items, null, undefined
CuBuffers == {<<>>, <<5>>, <<5, JsNull>>, <<JsUndefined>>, <<6, JsUndefined>>}

\* Version-1 cursor structures handed to encodeCursor
CuStructures ==
    {CursorV1(1, l, buf, TRUE, DRIVE_ID, f, m) :
        l \in {NullLink, UrlLink(GRAPH_HOST, childrenPath(DRIVE_ID, 3), 1, 1)},
        buf \in CuBuffers, f \in {3, 4}, m \in {"null", "2024-01-01T00:00:00Z"}}

\* Cursor texts handed to decodeCursor: no JSON, JSON null, an object without or
\* with another version tag, a version-1 cursor as encodeCursor spells it, and
\* the same with padding
CuTexts ==
    {CursorText("garbage", NoCursor), CursorText("null", NoCursor),
     CursorText("object", CursorV1(0, NullLink, <<>>, FALSE, "", 0, "null")),
     CursorText("object", CursorV1(2, NullLink, <<5>>, TRUE, DRIVE_ID, 3, "null")),
     CursorText("object", CursorV1(1, NullLink, <<5>>, TRUE, DRIVE_ID, 3, "null")),
     Respelled(CursorText("object", CursorV1(1, NullLink, <<5>>, TRUE, DRIVE_ID, 3, "null")))}

NoDecoded == [res |-> NoRes, cur |-> NoCursor]

\* validateNextLinkIsSafe(nextLink, driveId, inputFolderId)
CursorValidate ==
    /\ cu.safe = NoRes
    /\ cu' = [cu EXCEPT !.safe = validateNextLinkIsSafe(cu.nextLink, cu.driveId,
                                                        cu.inputFolderId)]
    /\ OutsideCursor

\* encodeCursor(data)
CursorEncode ==
    /\ cu.enc = NoCursorText
    /\ cu' = [cu EXCEPT !.enc = encodeCursor(cu.data)]
    /\ OutsideCursor

\* decodeCursor of what encodeCursor returned
CursorDecodeBack ==
    /\ cu.enc # NoCursorText /\ cu.back = NoDecoded
    /\ cu' = [cu EXCEPT !.back = decodeCursor(cu.enc)]
    /\ OutsideCursor

\* encodeCursor of what decodeCursor returned for an encoded cursor
CursorReencode ==
    /\ IsOk(cu.back.res) /\ cu.reenc = NoCursorText
    /\ cu' = [cu EXCEPT !.reenc = encodeCursor(cu.back.cur)]
    /\ OutsideCursor

\* decodeCursor(cursor) of a text from anywhere
CursorDecode ==
    /\ cu.dec = NoDecoded
    /\ cu' = [cu EXCEPT !.dec = decodeCursor(cu.cursor)]
    /\ OutsideCursor

\* encodeCursor of what decodeCursor returned for that text
CursorEncodeDecoded ==
    /\ IsOk(cu.dec.res) /\ cu.again = NoCursorText
    /\ cu' = [cu EXCEPT !.again = encodeCursor(cu.dec.cur)]
    /\ OutsideCursor

CursorInit ==
    /\ CursorOnly
    /\ \E nextLink \in CuLinks, driveId \in {DRIVE_ID, "drive-2"}, inputFolderId \in {3, 4},
          data \in CuStructures, cursor \in CuTexts :
         cu = [nextLink |-> nextLink, driveId |-> driveId, inputFolderId |-> inputFolderId,
               data |-> data, cursor |-> cursor, safe |-> NoRes, enc |-> NoCursorText,
               back |-> NoDecoded, reenc |-> NoCursorText, dec |-> NoDecoded,
               again |-> NoCursorText]

CursorNext ==
    \/ CursorValidate
    \/ CursorEncode
    \/ CursorDecodeBack
    \/ CursorReencode
    \/ CursorDecode
    \/ CursorEncodeDecoded

SpecCursor == CursorInit /\ [][CursorNext]_vars

\* The link's pathname begins with the listing endpoint of the bound drive and folder
CuUnderListing ==
    /\ Len(cu.nextLink.path) >= Len(childrenPath(cu.driveId, cu.inputFolderId))
    /\ \A i \in 1..Len(childrenPath(cu.driveId, cu.inputFolderId)) :
          cu.nextLink.path[i] = childrenPath(cu.driveId, cu.inputFolderId)[i]

CuRejection ==
    IF cu.nextLink.kind = "invalid" THEN AppError(400, "ValidationError")
    ELSE AppError(403, "Forbidden")

\* C11 as stated: a link is accepted only if its host is graph.microsoft.com, its
\* path is under /v1.0/ and its path is exactly the listing endpoint of the bound
\* drive and folder; every other link is rejected with Forbidden, or with
\* ValidationError when it does not parse
C11_AsStated ==
    cu.safe # NoRes =>
        /\ IsOk(cu.safe) =>
              /\ cu.nextLink.host = GRAPH_HOST
              /\ startsWith(cu.nextLink.path, <<"/", "v1.0", "/">>)
              /\ cu.nextLink.path = childrenPath(cu.driveId, cu.inputFolderId)
        /\ ~IsOk(cu.safe) => cu.safe = CuRejection

\* C11: a link is accepted exactly when it parses, its host is graph.microsoft.com,
\* its path is under /v1.0/ and its path begins with the listing endpoint of the
\* bound drive and folder (text may follow the endpoint); every other link is
\* rejected with Forbidden, or with ValidationError when it does not parse
C11_NextLinkAllowlist ==
    cu.safe # NoRes =>
        /\ IsOk(cu.safe) <=>
              /\ cu.nextLink.kind # "invalid"
              /\ cu.nextLink.host = GRAPH_HOST
              /\ startsWith(cu.nextLink.path, <<"/", "v1.0", "/">>)
              /\ CuUnderListing
        /\ ~IsOk(cu.safe) => cu.safe = CuRejection

\* C11 witness: a link to the bound listing was accepted, and so was one whose
\* path goes on after the listing endpoint
C11_Witness ==
    /\ IsOk(cu.safe)
    /\ cu.nextLink.host = GRAPH_HOST
    /\ CuUnderListing
    /\ cu.nextLink.path # childrenPath(cu.driveId, cu.inputFolderId)

\* The structure holds JSON values only (no undefined element in its buffer)
CuJsonOnly == \A i \in 1..Len(cu.data.buffer) : cu.data.buffer[i] # JsUndefined

toAbsoluteGraphUrl(urlOrPath) ==
    IF urlOrPath.kind = "array" THEN UntypedError("TypeError") ELSE OkRes

-----------------------------------------------------------------------------
(* tools/sp_list_protocols.ts. *)

MaxPageSize == 2

MaxListCalls == 3

\* if (safetyPages > 50)
SAFETY_PAGES == 50

Min(a, b) == IF a <= b THEN a ELSE b

\* Date.parse of the texts the model uses; a negative number stands for NaN
DateParse(t) ==
    CASE t = "1970-01-01T00:00:00Z" -> 0
      [] t = "2024-01-01T00:00:00Z" -> 1
      [] t = "2024-06-01T00:00:00Z" -> 2
      [] OTHER -> 0 - 1

\* modifiedAfter as clients send it: null, three texts the schema's pattern
\* accepts (the last names no date), and one it rejects
ListFilters ==
    {"null", "1970-01-01T00:00:00Z", "2024-01-01T00:00:00Z", "2024-99-99T00:00:00Z", "yesterday"}

\* SpListProtocolsInputSchema.safeParse succeeds
listInputValid(pageSize, modifiedAfter) ==
    /\ pageSize >= 1 /\ pageSize <= 200
    /\ modifiedAfter # "yesterday"

\* The drive of the listings: the provisioned folders, the files 5 "doc" and
\* 6 "memo" and the folder 7 "old" in the input folder
ListTree ==
    [i \in ItemIds |->
        CASE i = 6 -> [present |-> TRUE, name |-> <<"memo">>, parent |-> 3, folder |-> FALSE]
          [] i = 7 -> [present |-> TRUE, name |-> <<"old">>, parent |-> 3, folder |-> TRUE]
          [] OTHER -> DlTree(3)[i]]

ListChildIds == {5, 6, 7}

\* $orderby=lastModifiedDateTime desc over a set of items (ties: by id)
RECURSIVE SortDesc(_, _)
SortDesc(S, modified) ==
    IF S = {} THEN <<>>
    ELSE LET m == CHOOSE x \in S : \A y \in S :
                    modified[x] > modified[y] \/ (modified[x] = modified[y] /\ x <= y)
         IN <<m>> \o SortDesc(S \ {m}, modified)

\* GET of a children URL: the page at the link's position and the link to the rest
UpPage(items, modified, folderId, url) ==
    LET all == SortDesc({i \in ItemIds : items[i].present /\ items[i].parent = folderId}, modified)
        to == Min(url.skip + url.top, Len(all))
    IN [value |-> SubSeq(all, url.skip + 1, to),
        nextLink |-> IF to < Len(all)
                     THEN UrlLink(GRAPH_HOST, childrenPath(DRIVE_ID, folderId), to, url.top)
                     ELSE NullLink]

\* A plausible slip: the binding check compares the drive only
bindingCheck_DriveOnly(cur, scope, modifiedAfter) ==
    IF cur.driveId # scope.driveId THEN AppError(403, "Forbidden")
    ELSE IF cur.modifiedAfter # modifiedAfter THEN AppError(400, "ValidationError")
    ELSE OkRes

\* sp_list_protocols: the two tests that bind a cursor to the scope and the filter
bindingCheck(cur, scope, modifiedAfter) ==
    IF cur.driveId # scope.driveId \/ cur.inputFolderId # scope.inputFolderId
    THEN AppError(403, "Forbidden")
    ELSE IF cur.modifiedAfter # modifiedAfter THEN AppError(400, "ValidationError")
    ELSE OkRes

\* The three filters applied to a page: files only, inside the input prefix,
\* not older than modifiedAfter
listFilter(items, modified, scope, modifiedAfter, value) ==
    LET modifiedAfterMs == IF modifiedAfter # "null" THEN DateParse(modifiedAfter) ELSE 0
        Keep(i) ==
            LET fp == driveItemFullPath(DriveItemOf(items, i))
            IN /\ ~items[i].folder
               /\ fp # <<>>
               /\ (fp = scope.inputPrefix \/ startsWith(fp, scope.inputPrefix \o SEP))
               /\ (modifiedAfterMs = 0 \/ modified[i] >= modifiedAfterMs)
    IN SelectSeq(value, Keep)

InitList == [pc |-> "idle", pageSize |-> 0, modifiedAfter |-> "null",
             cursor |-> NoCursorText, cursorModifiedAfter |-> "null",
             nextLink |-> NullLink, buffer |-> <<>>, itemsOut |-> <<>>,
             safetyPages |-> 0, requests |-> 0, res |-> NoRes, nextCursor |-> NoCursorText,
             checked |-> {}, sent |-> {}, fetched |-> <<>>]

\* throw: the call ends with the error and returns nothing
ListThrow(k, err) ==
    [k EXCEPT !.pc = "done", !.res = err, !.itemsOut = <<>>, !.buffer = <<>>,
              !.nextLink = NullLink, !.nextCursor = NoCursorText]

\* The end of sp_list_protocols: nextCursor and the returned object
listReturn(k, scope) ==
    [k EXCEPT !.pc = "done", !.res = OkRes,
              !.nextCursor =
                 IF Truthy(k.nextLink) \/ Len(k.buffer) > 0
                 THEN encodeCursor(CursorV1(1, k.nextLink, k.buffer, TRUE, scope.driveId,
                                            scope.inputFolderId, k.cursorModifiedAfter))
                 ELSE NoCursorText]

\* Cursors a client can make up: every combination of a bound drive, folder and
\* filter with and without buffered items, links that leave the allowed listing,
\* and texts that are no version-1 cursor
ForgedLinks ==
    {InvalidLink,
     UrlLink("evil.example", childrenPath(DRIVE_ID, 3), 0, 1),
     UrlLink(GRAPH_HOST, <<"/", "beta", "/">> \o childrenPath(DRIVE_ID, 3), 0, 1),
     UrlLink(GRAPH_HOST, childrenPath(DRIVE_ID, 4), 0, 1),
     ArrayLink(GRAPH_HOST, childrenPath(DRIVE_ID, 3), 0, 1),
     EmptyLink}

ForgedCursors ==
    {CursorText("object", CursorV1(1, UrlLink(GRAPH_HOST, childrenPath(DRIVE_ID, 3), 1, 1),
                                   buf, TRUE, d, f, m)) :
        buf \in {<<>>, <<9>>}, d \in {DRIVE_ID, "drive-2"}, f \in {3, 4},
        m \in {"null", "2024-01-01T00:00:00Z"}}
    \cup {CursorText("object", CursorV1(1, l, <<>>, TRUE, DRIVE_ID, 3, "null")) : l \in ForgedLinks}
    \cup {CursorText("garbage", NoCursor), CursorText("null", NoCursor),
          CursorText("object", CursorV1(2, NullLink, <<9>>, TRUE, DRIVE_ID, 3, "null")),
          CursorText("object", CursorV1(1, NullLink, <<>>, FALSE, DRIVE_ID, 3, "null")),
          CursorText("object", CursorV1(1, NullLink, <<>>, FALSE, "", 0, "null"))}

\* A plausible slip: what does not fit the page is not kept
overflowOf_Dropped(filtered, n) == <<>>

\* `else buffer.push(it)`: the filtered items after the first n
overflowOf(filtered, n) == SubSeq(filtered, n + 1, Len(filtered))

\* sp_list_protocols from its entry to the first upstream request: parse the input,
\* decode and check the cursor, drain the buffer
ListStartWith(pageSizes, filters, cursors) ==
    /\ ls.call.pc = "idle"
    /\ ls.calls < MaxListCalls
    /\ \E pageSize \in pageSizes, modifiedAfter \in filters, cursor \in cursors :
         LET k0 == [InitList EXCEPT !.pageSize = pageSize, !.modifiedAfter = modifiedAfter,
                                    !.cursor = cursor, !.cursorModifiedAfter = modifiedAfter]
             d == decodeCursor(cursor)
             bound == bindingCheck(d.cur, ls.scope, modifiedAfter)
             buffer == IF d.cur.bufferIsArray THEN d.cur.buffer ELSE <<>>
             safe == IF Truthy(d.cur.nextLink)
                     THEN validateNextLinkIsSafe(d.cur.nextLink, ls.scope.driveId,
                                                 ls.scope.inputFolderId)
                     ELSE OkRes
             k1 == IF cursor = NoCursorText THEN k0
                   ELSE [k0 EXCEPT !.nextLink = d.cur.nextLink, !.buffer = buffer,
                                   !.cursorModifiedAfter = d.cur.modifiedAfter,
                                   !.checked = IF Truthy(d.cur.nextLink)
                                               THEN {d.cur.nextLink} ELSE {}]
             n == Min(Len(k1.buffer), pageSize)
             k2 == [k1 EXCEPT !.itemsOut = SubSeq(k1.buffer, 1, n),
                              !.buffer = SubSeq(k1.buffer, n + 1, Len(k1.buffer))]
         IN ls' = [ls EXCEPT !.call =
              IF ~listInputValid(pageSize, modifiedAfter)
                 THEN ListThrow(k0, AppError(400, "ValidationError"))
              ELSE IF modifiedAfter # "null" /\ DateParse(modifiedAfter) < 0
                 THEN ListThrow(k0, AppError(400, "ValidationError"))
              ELSE IF cursor # NoCursorText /\ ~IsOk(d.res) THEN ListThrow(k0, d.res)
              ELSE IF cursor # NoCursorText /\ ~IsOk(bound) THEN ListThrow(k0, bound)
              ELSE IF cursor # NoCursorText /\ ~IsOk(safe) THEN ListThrow(k0, safe)
              ELSE IF Len(k2.itemsOut) < pageSize THEN [k2 EXCEPT !.pc = "fetch"]
              ELSE listReturn(k2, ls.scope)]
    /\ UNCHANGED driveVars
    /\ OutsideList

\* A call by a client that may send anything
ListStart ==
    ListStartWith(0..MaxPageSize, ListFilters, {NoCursorText} \cup ForgedCursors \cup ls.issued)

\* One turn of the fetch loop: request a page, filter it, fill the output, keep
\* the overflow, validate the new continuation link
ListFetchWith(statuses) ==
    /\ ls.call.pc = "fetch"
    /\ \E st \in statuses :
         LET k == ls.call
             top == IF k.modifiedAfter # "null" THEN Min(k.pageSize * 5, 200) ELSE k.pageSize
             url == IF k.nextLink.kind # "null" THEN k.nextLink
                    ELSE UrlLink(GRAPH_HOST,
                                 childrenPath(ls.scope.driveId, ls.scope.inputFolderId), 0, top)
             k1 == [k EXCEPT !.safetyPages = @ + 1, !.requests = @ + 1,
                             !.sent = IF k.nextLink.kind # "null" THEN @ \cup {k.nextLink}
                                      ELSE @]
             page == UpPage(upItems, ls.modified, ls.scope.inputFolderId, url)
             filtered == listFilter(upItems, ls.modified, ls.scope, k.modifiedAfter, page.value)
             n == Min(k.pageSize - Len(k.itemsOut), Len(filtered))
             k2 == [k1 EXCEPT !.nextLink = page.nextLink,
                              !.itemsOut = @ \o SubSeq(filtered, 1, n),
                              !.buffer = @ \o overflowOf(filtered, n),
                              !.fetched = @ \o filtered]
             safe == validateNextLinkIsSafe(k2.nextLink, ls.scope.driveId,
                                            ls.scope.inputFolderId)
         IN ls' = [ls EXCEPT !.call =
              IF k.safetyPages + 1 > SAFETY_PAGES
                 THEN ListThrow(k, AppError(500, "InternalError"))
              ELSE IF url.kind = "array"
                 THEN ListThrow([k EXCEPT !.safetyPages = @ + 1], toAbsoluteGraphUrl(url))
              ELSE IF st # 200 THEN ListThrow(k1, graphRequestError(st))
              ELSE IF url.path # childrenPath(DRIVE_ID, ls.scope.inputFolderId)
                 THEN ListThrow(k1, graphRequestError(404))
              ELSE IF Len(k2.itemsOut) >= k.pageSize THEN listReturn(k2, ls.scope)
              ELSE IF ~Truthy(k2.nextLink) THEN listReturn(k2, ls.scope)
              ELSE IF ~IsOk(safe) THEN ListThrow(k2, safe)
              ELSE [k2 EXCEPT !.checked = @ \cup {k2.nextLink}]]
    /\ UNCHANGED driveVars
    /\ OutsideList

\* The upstream answers with 200 or with an error status
ListFetch == ListFetchWith({200} \cup UpFailStatuses)

\* The client receives the result (and any nextCursor) and may call again
ListDeliver ==
    /\ ls.call.pc = "done"
    /\ ls' = [ls EXCEPT !.call = InitList, !.calls = @ + 1,
                        !.issued = IF ls.call.nextCursor # NoCursorText
                                   THEN @ \cup {ls.call.nextCursor} ELSE @]
    /\ UNCHANGED driveVars
    /\ OutsideList

ListInit ==
    /\ ListOnly
    /\ upItems = ListTree
    /\ upEnv = NoEnv
    /\ \E perUser \in BOOLEAN, modified \in [ListChildIds -> 1..2] :
         ls = [scope |-> DlScope(perUser), modified |-> modified, call |-> InitList,
               calls |-> 0, issued |-> {}]

ListNext ==
    \/ ListStart
    \/ ListFetch
    \/ ListDeliver

SpecList == ListInit /\ [][ListNext]_vars

ListTypeOK ==
    /\ ls.call.pc \in {"idle", "fetch", "done"}
    /\ Len(ls.call.itemsOut) <= MaxPageSize

\* The cursor of the call is a version-1 cursor (decodeCursor returns it)
ListCursorDecodes == ls.call.cursor.json = "object" /\ ls.call.cursor.data.v = 1

\* The input of the call passes the schema and names a date
ListInputOk ==
    /\ listInputValid(ls.call.pageSize, ls.call.modifiedAfter)
    /\ (ls.call.modifiedAfter = "null" \/ DateParse(ls.call.modifiedAfter) >= 0)

ListScopeDiffers ==
    \/ ls.call.cursor.data.driveId # ls.scope.driveId
    \/ ls.call.cursor.data.inputFolderId # ls.scope.inputFolderId

ListFilterDiffers == ls.call.cursor.data.modifiedAfter # ls.call.modifiedAfter

\* The call ended without an upstream request and returned nothing
ListNothingDone ==
    /\ ls.call.pc = "done" /\ ~IsOk(ls.call.res)
    /\ ls.call.requests = 0
    /\ ls.call.itemsOut = <<>>
    /\ ls.call.nextCursor = NoCursorText

\* C10: a cursor whose driveId or inputFolderId differs from the scope is rejected
\* with Forbidden, and a cursor whose modifiedAfter differs from the call's is
\* rejected with ValidationError (a cursor that differs in both can get only one
\* of the two errors; the scope is compared first and it gets Forbidden); in both
\* cases no upstream request is made and none of the cursor's buffered items is
\* returned
C10_CursorBinding ==
    /\ (ls.call.pc = "done" /\ ListCursorDecodes /\ ListInputOk) =>
          /\ ListScopeDiffers => ls.call.res = AppError(403, "Forbidden")
          /\ (~ListScopeDiffers /\ ListFilterDiffers) =>
                ls.call.res = AppError(400, "ValidationError")
    /\ (ls.call.pc # "idle" /\ ListCursorDecodes /\ (ListScopeDiffers \/ ListFilterDiffers)) =>
          ListNothingDone

\* C10 witness: a cursor handed out by an earlier call, with buffered items, came
\* back with another modifiedAfter and the call ended with ValidationError
C10_Witness ==
    /\ ls.call.pc = "done"
    /\ ls.call.cursor \in ls.issued
    /\ Len(ls.call.cursor.data.buffer) > 0
    /\ ListFilterDiffers /\ ListInputOk
    /\ ls.call.res = AppError(400, "ValidationError")
    /\ ListNothingDone

\* The call was given a cursor that is no version-1 cursor structure: text that is
\* no base64url of JSON, JSON null, an object without or with another version tag,
\* or a version-1 object whose fields are not those of a cursor (no driveId, a
\* buffer that is no array, a nextLink that is neither a string nor null)
ListCursorMalformed ==
    /\ ls.call.cursor # NoCursorText
    /\ \/ ~ListCursorDecodes
       \/ ls.call.cursor.data.driveId = ""
       \/ ~ls.call.cursor.data.bufferIsArray
       \/ ls.call.cursor.data.nextLink.kind = "array"

\* C13: a call of sp_list_protocols with a malformed cursor ends with
\* ValidationError, and no call, whatever its cursor, ends with an error that is
\* not an AppError
C13_AsStated ==
    ls.call.pc = "done" =>
        /\ (ListCursorMalformed /\ ListInputOk) => ls.call.res = AppError(400, "ValidationError")
        /\ ls.call.res.kind # "Error"

\* C13, the part the code keeps: text that does not decode to a version-1 object
\* ends the call with ValidationError before any upstream request
C13_UndecodableRejected ==
    (ls.call.pc # "idle" /\ ls.call.cursor # NoCursorText /\ ~ListCursorDecodes /\ ListInputOk) =>
        /\ ls.call.res = AppError(400, "ValidationError")
        /\ ListNothingDone

\* C30: every continuation URL (a nextLink from the presented cursor or from a
\* previous upstream response) that a call of sp_list_protocols has sent a request
\* to had passed validateNextLinkIsSafe in that call before
C30_AsStated == ls.call.sent \subseteq ls.call.checked

\* C31: every upstream continuation that sp_list_protocols embeds in a returned
\* nextCursor has passed validateNextLinkIsSafe for the scope, in that call,
\* before the cursor is emitted
C31_AsStated ==
    (ls.call.pc = "done" /\ ls.call.nextCursor # NoCursorText
     /\ Truthy(ls.call.nextCursor.data.nextLink)) =>
        ls.call.nextCursor.data.nextLink \in ls.call.checked

\* The buffer the call's cursor brought, and the one its nextCursor takes away
ListCursorBuffer ==
    IF ls.call.cursor # NoCursorText /\ ls.call.cursor.data.bufferIsArray
    THEN ls.call.cursor.data.buffer ELSE <<>>

ListReturnedBuffer ==
    IF ls.call.nextCursor # NoCursorText THEN ls.call.nextCursor.data.buffer ELSE <<>>

\* C33: a call returns at most pageSize items, the cursor's buffered items first
\* and in their order; it requests upstream only if the buffer held fewer than
\* pageSize items; and the items it returns followed by the buffer of the
\* returned cursor are the buffered items followed by every fetched matching
\* item, so none is dropped
C33_BufferFirst ==
    /\ ls.call.requests > 0 => Len(ListCursorBuffer) < ls.call.pageSize
    /\ (ls.call.pc = "done" /\ IsOk(ls.call.res)) =>
          /\ Len(ls.call.itemsOut) <= ls.call.pageSize
          /\ Len(ls.call.itemsOut)
                = Min(ls.call.pageSize, Len(ListCursorBuffer) + Len(ls.call.fetched))
          /\ ls.call.itemsOut \o ListReturnedBuffer = ListCursorBuffer \o ls.call.fetched

\* C33 witness: a call drained a buffered item of a cursor handed out before,
\* requested a page, and returned a cursor that buffers what did not fit
C33_Witness ==
    /\ ls.call.pc = "done" /\ IsOk(ls.call.res)
    /\ ls.call.cursor \in ls.issued
    /\ Len(ListCursorBuffer) > 0
    /\ ls.call.requests > 0
    /\ Len(ListReturnedBuffer) > 0

-----------------------------------------------------------------------------
(* A client that walks one listing: every call carries the nextCursor of the   *)
(* result before it and the same modifiedAfter; the upstream listing does not  *)
(* change and answers every request.                                           *)

\* The input folder with the items 5, 6, 7, those in folders being folders
WalkTree(folders) ==
    [i \in ItemIds |->
        IF i \in ListChildIds THEN [ListTree[i] EXCEPT !.folder = i \in folders]
        ELSE ListTree[i]]

WalkFilters == {"null", "2024-06-01T00:00:00Z"}

WalkStart ==
    /\ ~ls.walk.finished
    /\ ListStartWith(1..MaxPageSize, {ls.walk.modifiedAfter}, {ls.walk.cursor})

WalkFetch == ListFetchWith({200})

\* The client takes the items and the nextCursor of a result; after a failed
\* call it holds what it held
WalkDeliver ==
    /\ ls.call.pc = "done"
    /\ ls' = [ls EXCEPT !.call = InitList, !.calls = @ + 1,
                        !.issued = IF ls.call.nextCursor # NoCursorText
                                   THEN @ \cup {ls.call.nextCursor} ELSE @,
                        !.walk = IF IsOk(ls.call.res)
                                 THEN [@ EXCEPT !.seen = @ \o ls.call.itemsOut,
                                                !.cursor = ls.call.nextCursor,
                                                !.finished = ls.call.nextCursor = NoCursorText]
                                 ELSE @]
    /\ UNCHANGED driveVars
    /\ OutsideList

WalkInit ==
    /\ ListOnly
    /\ upEnv = NoEnv
    /\ \E folders \in SUBSET ListChildIds, modified \in [ListChildIds -> 1..2],
          modifiedAfter \in WalkFilters :
         /\ upItems = WalkTree(folders)
         /\ ls = [scope |-> DlScope(TRUE), modified |-> modified, call |-> InitList,
                  calls |-> 0, issued |-> {},
                  walk |-> [modifiedAfter |-> modifiedAfter, cursor |-> NoCursorText,
                            seen |-> <<>>, finished |-> FALSE]]

WalkNext ==
    \/ WalkStart
    \/ WalkFetch
    \/ WalkDeliver

SpecListWalk == WalkInit /\ [][WalkNext]_vars /\ WF_vars(WalkNext)

\* The matching files of the listing, in upstream order
WalkExpected ==
    listFilter(upItems, ls.modified, ls.scope, ls.walk.modifiedAfter,
               SortDesc({i \in ItemIds : upItems[i].present
                                         /\ upItems[i].parent = ls.scope.inputFolderId},
                        ls.modified))

\* What the client has been given so far, the result in hand included
WalkGiven ==
    ls.walk.seen \o (IF ls.call.pc = "done" /\ IsOk(ls.call.res) THEN ls.call.itemsOut ELSE <<>>)

WalkInOrder ==
    /\ Len(WalkGiven) <= Len(WalkExpected)
    /\ WalkGiven = SubSeq(WalkExpected, 1, Len(WalkGiven))

WalkComplete == ls.walk.finished /\ ls.walk.seen = WalkExpected

\* C32: the walk returns every matching file exactly once and in upstream order
\* (what the client has been given is always a beginning of the matching
\* listing, so nothing comes twice and the listing never restarts), and it
\* eventually ends with nextCursor = null, all matching files returned
C32_AsStated == []WalkInOrder /\ <>WalkComplete

-----------------------------------------------------------------------------
(* auth/jwt.ts: the token verifier. *)

\* A bearer token, by what the verifier can tell about it:
\*   segs, emptySeg   number of "."-separated parts, and whether one is empty
\*   header, payload  what JSON.parse makes of the segment: "garbage" (it throws),
\*                    "null", or "object"
\*   alg, kid         header fields ("" : absent)
\*   sigKey, sigOver  the key that made the signature and whether it was made over
\*                    this token's header.payload bytes ("this") or others
\*   iss, sub         payload strings ("" : absent)
\*   aud              absent ([arr FALSE, vals {}]), a string or an array
\*   nbf, exp         [t |-> "absent" | "number" | "string", v |-> the value]
\*   scope            [t |-> "absent" | "string" | "array", words |-> its parts]
\*   authorities      the authorities array as a set ({} : absent)

JWT_ISSUER == "https://idp.example"

JWT_AUDIENCE == "gateway"

\* config.JWT_CLOCK_TOLERANCE_SEC and config.JWT_JWKS_CACHE_MS in the model's clock units
JWT_CLOCK_TOLERANCE_SEC == 1

JWT_JWKS_CACHE_MS == 2

MaxNow == 4

\* The key set the identity provider serves: kid k1 is an RSA key, kid k2 is an
\* entry createPublicKey cannot read
JwksKeys ==
    {[kid |-> "k1", key |-> "K1", wellFormed |-> TRUE],
     [kid |-> "k2", key |-> "K2", wellFormed |-> FALSE]}

JwksKids(keys) == {j.kid : j \in keys}

JwkOf(keys, kid) == CHOOSE j \in keys : j.kid = kid

Absent == [t |-> "absent", v |-> 0]

Num(n) == [t |-> "number", v |-> n]

\* splitList: the non-empty items of a comma-separated setting
splitList(raw) == LET NonEmpty(x) == x # "" IN SelectSeq(raw, NonEmpty)

SeqRange(q) == {q[i] : i \in 1..Len(q)}

\* decodeJwt: OkRes where it returns, else what it throws
decodeJwt(tok) ==
    IF tok.segs # 3 THEN AppError(401, "Unauthorized")
    ELSE IF tok.emptySeg THEN AppError(401, "Unauthorized")
    ELSE IF tok.header = "garbage" THEN UntypedError("SyntaxError")
    ELSE IF tok.payload = "garbage" THEN UntypedError("SyntaxError")
    ELSE OkRes

\* verifyJwt lines 156-161: the header tests
headerCheck(tok) ==
    IF tok.header = "null" THEN UntypedError("TypeError")
    ELSE IF tok.alg # "RS256" THEN AppError(401, "Unauthorized")
    ELSE IF tok.kid = "" THEN AppError(401, "Unauthorized")
    ELSE OkRes

\* verifyJwt lines 164-168: createPublicKey and verify with the key found
signatureCheck(tok, jwk) ==
    IF ~jwk.wellFormed THEN UntypedError("TypeError")
    ELSE IF ~(tok.sigKey = jwk.key /\ tok.sigOver = "this") THEN AppError(401, "Unauthorized")
    ELSE OkRes

audMatches(aud, expected) ==
    IF ~aud.arr /\ aud.vals = {} THEN FALSE
    ELSE expected \in aud.vals /\ (aud.arr \/ aud.vals = {expected})

extractScopes(tok) ==
    LET fromScope == IF tok.scope.t = "array" THEN SeqRange(tok.scope.words)
                     ELSE IF tok.scope.t = "string" THEN SeqRange(tok.scope.words) \ {""}
                     ELSE {}
    IN fromScope \cup tok.authorities

\* A plausible slip: the expiry test forgets the clock tolerance
claimsCheck_NoTolerance(tok, required, now) ==
    LET skew == JWT_CLOCK_TOLERANCE_SEC IN
    IF tok.payload = "null" THEN UntypedError("TypeError")
    ELSE IF tok.iss # JWT_ISSUER THEN AppError(401, "Unauthorized")
    ELSE IF ~audMatches(tok.aud, JWT_AUDIENCE) THEN AppError(401, "Unauthorized")
    ELSE IF tok.nbf.t = "number" /\ now + skew < tok.nbf.v THEN AppError(401, "Unauthorized")
    ELSE IF tok.exp.t = "number" /\ now > tok.exp.v THEN AppError(401, "Unauthorized")
    ELSE IF SeqRange(splitList(required)) \ extractScopes(tok) # {} THEN AppError(403, "Forbidden")
    ELSE OkRes

\* verifyJwt lines 170-193: issuer, audience, time and scope tests
claimsCheck(tok, required, now) ==
    LET skew == JWT_CLOCK_TOLERANCE_SEC IN
    IF tok.payload = "null" THEN UntypedError("TypeError")
    ELSE IF tok.iss # JWT_ISSUER THEN AppError(401, "Unauthorized")
    ELSE IF ~audMatches(tok.aud, JWT_AUDIENCE) THEN AppError(401, "Unauthorized")
    ELSE IF tok.nbf.t = "number" /\ now + skew < tok.nbf.v THEN AppError(401, "Unauthorized")
    ELSE IF tok.exp.t = "number" /\ now - skew > tok.exp.v THEN AppError(401, "Unauthorized")
    ELSE IF SeqRange(splitList(required)) \ extractScopes(tok) # {} THEN AppError(403, "Forbidden")
    ELSE OkRes

\* The VerifiedJwt verifyJwt returns
VerifiedJwt(tok) == [sub |-> tok.sub, scopes |-> extractScopes(tok), iss |-> tok.iss]

NoJwt == [sub |-> "", scopes |-> {}, iss |-> ""]

MaxJwtRuns == 2

NoCache == [set |-> FALSE, expiresAt |-> 0, keys |-> {}]

InitRun == [pc |-> "idle", tok |-> <<>>, refreshed |-> FALSE, fetchFailed |-> FALSE,
            res |-> NoRes, out |-> NoJwt, nowAt |-> 0]

\* throw: verifyJwt ends with the error
JwtThrow(j, err) == [j EXCEPT !.run.pc = "done", !.run.res = err]

\* verifyJwt from the key on: signature, claims, the returned VerifiedJwt
JwtFinish(j, jwk) ==
    LET tok == j.run.tok
        sig == signatureCheck(tok, jwk)
        claims == claimsCheck(tok, j.required, j.now)
        j1 == [j EXCEPT !.run.nowAt = j.now]
    IN IF ~IsOk(sig) THEN JwtThrow(j1, sig)
       ELSE IF ~IsOk(claims) THEN JwtThrow(j1, claims)
       ELSE [j1 EXCEPT !.run.pc = "done", !.run.res = OkRes, !.run.out = VerifiedJwt(tok)]

\* getJwk once fetchJwks has answered with the key set keys
JwtLookup(j, keys) ==
    IF j.run.tok.kid \in JwksKids(keys) THEN JwtFinish(j, JwkOf(keys, j.run.tok.kid))
    ELSE IF ~j.run.refreshed
         THEN [j EXCEPT !.cache = NoCache, !.run.pc = "fetch", !.run.refreshed = TRUE]
    ELSE JwtThrow(j, AppError(401, "Unauthorized"))

\* verifyJwt up to its first await: decode, header tests, the cached key set
JwtBegin(j, token) ==
    LET j0 == [j EXCEPT !.run = [InitRun EXCEPT !.tok = token]]
        dec == decodeJwt(token)
        hdr == headerCheck(token)
    IN IF ~IsOk(dec) THEN JwtThrow(j0, dec)
       ELSE IF ~IsOk(hdr) THEN JwtThrow(j0, hdr)
       ELSE IF j.cache.set /\ j.now < j.cache.expiresAt THEN JwtLookup(j0, j.cache.keys)
       ELSE [j0 EXCEPT !.run.pc = "fetch"]

\* fetchJwks after its await: the response of the JWKS endpoint
\* ("ok", "http-error" for !res.ok, "network-error" for a rejected fetch)
JwtFetched(j, outcome) ==
    LET j0 == [j EXCEPT !.run.fetchFailed = TRUE] IN
    IF outcome = "network-error" THEN JwtThrow(j0, UntypedError("TypeError"))
    ELSE IF outcome = "http-error" THEN JwtThrow(j0, AppError(401, "Unauthorized"))
    ELSE JwtLookup([j EXCEPT !.cache = [set |-> TRUE,
                                         expiresAt |-> j.now + JWT_JWKS_CACHE_MS,
                                         keys |-> JwksKeys]],
                   JwksKeys)

JwtTimes == 0..(MaxNow + JWT_CLOCK_TOLERANCE_SEC + 1)

\* A token the identity provider issued to alice and that passes every test at
\* any time from 0 to MaxNow
GoodToken ==
    [segs |-> 3, emptySeg |-> FALSE, header |-> "object", alg |-> "RS256", kid |-> "k1",
     payload |-> "object", sigKey |-> "K1", sigOver |-> "this",
     iss |-> JWT_ISSUER, sub |-> "alice", aud |-> [arr |-> FALSE, vals |-> {JWT_AUDIENCE}],
     nbf |-> Num(0), exp |-> Num(MaxNow),
     scope |-> [t |-> "string", words |-> <<"read", "", "write">>], authorities |-> {}]

\* All tokens that differ from t in one respect
TokenVariants(t) ==
    {[t EXCEPT !.segs = v] : v \in {2, 4}}
    \cup {[t EXCEPT !.emptySeg = TRUE]}
    \cup {[t EXCEPT !.header = v] : v \in {"garbage", "null"}}
    \cup {[t EXCEPT !.alg = v] : v \in {"none", "HS256"}}
    \cup {[t EXCEPT !.kid = v] : v \in {"", "k2", "k9"}}
    \cup {[t EXCEPT !.payload = v] : v \in {"garbage", "null"}}
    \cup {[t EXCEPT !.sigKey = "KX"], [t EXCEPT !.sigOver = "other"]}
    \cup {[t EXCEPT !.iss = v] : v \in {"", "https://evil.example"}}
    \cup {[t EXCEPT !.sub = v] : v \in {"", "bob"}}
    \cup {[t EXCEPT !.aud = v] : v \in {[arr |-> FALSE, vals |-> {}],
                                       [arr |-> FALSE, vals |-> {"other"}],
                                       [arr |-> TRUE, vals |-> {"other", JWT_AUDIENCE}],
                                       [arr |-> TRUE, vals |-> {"other"}],
                                       [arr |-> TRUE, vals |-> {}]}}
    \cup {[t EXCEPT !.nbf = v] : v \in {Absent, [t |-> "string", v |-> 0]} \cup {Num(n) : n \in JwtTimes}}
    \cup {[t EXCEPT !.exp = v] : v \in {Absent, [t |-> "string", v |-> 0]} \cup {Num(n) : n \in JwtTimes}}
    \cup {[t EXCEPT !.scope = v] : v \in {[t |-> "absent", words |-> <<>>],
                                         [t |-> "array", words |-> <<"read">>],
                                         [t |-> "string", words |-> <<"write">>]}}
    \cup {[t EXCEPT !.authorities = {"admin"}]}

\* The tokens presented: the good one and all that differ from it in one or two respects
JwtTokens == {GoodToken} \cup UNION {TokenVariants(t) : t \in TokenVariants(GoodToken)}

\* config.JWT_REQUIRED_SCOPES, comma-separated
RequiredScopeSettings == {<<>>, <<"read">>, <<"read", "", "admin">>}

JwtBoot(required) ==
    [required |-> required, now |-> 0, cache |-> NoCache, run |-> InitRun, runs |-> 0]

JwtStart ==
    /\ jwt.run.pc = "idle"
    /\ jwt.runs < MaxJwtRuns
    /\ \E token \in JwtTokens : jwt' = JwtBegin(jwt, token)
    /\ OutsideJwt

JwtFetch ==
    /\ jwt.run.pc = "fetch"
    /\ \E outcome \in {"ok", "http-error", "network-error"} : jwt' = JwtFetched(jwt, outcome)
    /\ OutsideJwt

\* The caller takes the result; the verifier is free for the next token
JwtReturn ==
    /\ jwt.run.pc = "done"
    /\ jwt' = [jwt EXCEPT !.run = InitRun, !.runs = @ + 1]
    /\ OutsideJwt

\* Date.now() advances
JwtTick ==
    /\ jwt.now < MaxNow
    /\ jwt' = [jwt EXCEPT !.now = @ + 1]
    /\ OutsideJwt

JwtInit ==
    /\ JwtOnly
    /\ \E required \in RequiredScopeSettings : jwt = JwtBoot(required)

JwtNext ==
    \/ JwtStart
    \/ JwtFetch
    \/ JwtReturn
    \/ JwtTick

SpecJwt == JwtInit /\ [][JwtNext]_vars

\* The tests of C2 on a token, one by one, at time now
TokWellFormed(tok) ==
    tok.segs = 3 /\ ~tok.emptySeg /\ tok.header = "object" /\ tok.payload = "object"

TokKeyVerifies(tok) ==
    /\ tok.kid # ""
    /\ \E j \in JwksKeys : /\ j.kid = tok.kid /\ j.wellFormed
                           /\ tok.sigKey = j.key /\ tok.sigOver = "this"

TokAudience(tok) ==
    \/ ~tok.aud.arr /\ tok.aud.vals = {JWT_AUDIENCE}
    \/ tok.aud.arr /\ JWT_AUDIENCE \in tok.aud.vals

TokScopes(tok, required) ==
    \A i \in 1..Len(required) :
        required[i] # "" =>
            \/ required[i] \in tok.authorities
            \/ \E n \in 1..Len(tok.scope.words) :
                  tok.scope.t # "absent" /\ tok.scope.words[n] = required[i]

TokAllButTime(tok, required) ==
    /\ TokWellFormed(tok) /\ tok.alg = "RS256" /\ TokKeyVerifies(tok)
    /\ tok.iss = JWT_ISSUER /\ TokAudience(tok) /\ TokScopes(tok, required)

\* nbf and exp are within the tolerance where the token carries them as numbers
TokTimeIfPresent(tok, now) ==
    /\ tok.nbf.t = "number" => tok.nbf.v <= now + JWT_CLOCK_TOLERANCE_SEC
    /\ tok.exp.t = "number" => tok.exp.v >= now - JWT_CLOCK_TOLERANCE_SEC

\* exp is a time within the tolerance (and nbf, where the token has one)
TokTimeStated(tok, now) ==
    /\ tok.nbf.t = "number" => tok.nbf.v <= now + JWT_CLOCK_TOLERANCE_SEC
    /\ tok.exp.t = "number" /\ tok.exp.v >= now - JWT_CLOCK_TOLERANCE_SEC

\* C2 as stated: verifyJwt returns a VerifiedJwt if and only if the token has three
\* segments, algorithm RS256, a kid whose JWKS key verifies the signature, the
\* configured issuer and audience, nbf and exp within the clock-skew tolerance of
\* the current time and every required scope (read in the claim's favour: nbf may
\* be absent, and a run whose JWKS request failed is left aside)
C2_AsStated ==
    (jwt.run.pc = "done" /\ ~jwt.run.fetchFailed) =>
        (IsOk(jwt.run.res) <=>
            /\ TokAllButTime(jwt.run.tok, jwt.required)
            /\ TokTimeStated(jwt.run.tok, jwt.run.nowAt))

\* C2 amended: verifyJwt returns a VerifiedJwt if and only if the token has three
\* segments, algorithm RS256, a kid whose JWKS key verifies the signature, the
\* configured issuer and audience, nbf and exp within the clock-skew tolerance
\* where the token carries them as numbers, and every required scope; a run whose
\* JWKS request fails returns none
C2_VerifiedIff ==
    jwt.run.pc = "done" =>
        /\ ~jwt.run.fetchFailed =>
              (IsOk(jwt.run.res) <=>
                  /\ TokAllButTime(jwt.run.tok, jwt.required)
                  /\ TokTimeIfPresent(jwt.run.tok, jwt.run.nowAt))
        /\ jwt.run.fetchFailed => ~IsOk(jwt.run.res)
        /\ IsOk(jwt.run.res) <=> jwt.run.out # NoJwt

\* C2 witness: a token whose exp lies in the past, but within the tolerance, and
\* whose aud is an array was verified after the clock had advanced
C2_Witness ==
    /\ jwt.run.pc = "done" /\ IsOk(jwt.run.res)
    /\ jwt.run.tok.exp.t = "number" /\ jwt.run.tok.exp.v < jwt.run.nowAt
    /\ jwt.run.tok.aud.arr
    /\ jwt.run.out.sub = "alice"

\* C3: every failure of verifyJwt is a typed error, Unauthorized (401) or, for
\* missing required scopes only, Forbidden (403); it never fails with an untyped error
C3_AsStated ==
    (jwt.run.pc = "done" /\ ~IsOk(jwt.run.res)) =>
        /\ jwt.run.res \in {AppError(401, "Unauthorized"), AppError(403, "Forbidden")}
        /\ jwt.run.res = AppError(403, "Forbidden") =>
              ~TokScopes(jwt.run.tok, jwt.required)

-----------------------------------------------------------------------------
(* storage/downloadStore.ts and storage/storage.ts: the in-memory download store. *)

\* MAX_ENTRIES and config.DOWNLOAD_TTL_MS, scaled to the model
MAX_ENTRIES == 2

DOWNLOAD_TTL_MS == 2

DOCX_MIME == "application/vnd.openxmlformats-officedocument.wordprocessingml.document"

NoEntry == [id |-> 0, fileName |-> "", content |-> <<>>, mimeType |-> "", ownerSub |-> "",
            createdAt |-> 0, expiresAt |-> 0]

\* The entries of a store in the order sort((a, b) => a.createdAt - b.createdAt)
\* leaves them in (stable: equal times keep insertion order, that is id order)
RECURSIVE OldestFirst(_)
OldestFirst(store) ==
    IF store = {} THEN <<>>
    ELSE LET e == CHOOSE x \in store : \A y \in store :
                    x.createdAt < y.createdAt \/ (x.createdAt = y.createdAt /\ x.id <= y.id)
         IN <<e>> \o OldestFirst(store \ {e})

\* A plausible slip: the entries beyond MAX_ENTRIES are taken from the newest end
cleanup_NewestFirst(store, now) ==
    LET live == {e \in store : ~(e.expiresAt <= now)}
        sorted == OldestFirst(live)
        excess == Cardinality(live) - MAX_ENTRIES
    IN IF Cardinality(live) <= MAX_ENTRIES THEN live
       ELSE live \ {sorted[Len(sorted) + 1 - i] : i \in 1..excess}

\* A plausible slip: the excess is counted before the expired entries are dropped
cleanup_CountsExpired(store, now) ==
    LET live == {e \in store : ~(e.expiresAt <= now)}
        sorted == OldestFirst(live)
        excess == Cardinality(store) - MAX_ENTRIES
    IN IF Cardinality(store) <= MAX_ENTRIES THEN live
       ELSE live \ {sorted[i] : i \in 1..excess}

\* cleanup(now): drop expired entries, then the oldest ones beyond MAX_ENTRIES
cleanup(store, now) ==
    LET live == {e \in store : ~(e.expiresAt <= now)}
        sorted == OldestFirst(live)
        excess == Cardinality(live) - MAX_ENTRIES
    IN IF Cardinality(live) <= MAX_ENTRIES THEN live
       ELSE live \ {sorted[i] : i \in 1..excess}

\* putDownload: the store after the call (id is the fresh randomUUID())
putDownload(store, id, fileName, content, mimeType, ownerSub, ttlMs, now) ==
    cleanup(store, now) \cup
        {[id |-> id, fileName |-> fileName, content |-> content, mimeType |-> mimeType,
          ownerSub |-> ownerSub, createdAt |-> now,
          expiresAt |-> now + (IF ttlMs > 0 THEN ttlMs ELSE DOWNLOAD_TTL_MS)]}

\* A plausible slip: an entry is returned whatever its expiresAt
getDownload_NoExpiry(store, id, now) ==
    IF \A e \in store : e.id # id THEN [entry |-> NoEntry, store |-> store]
    ELSE [entry |-> CHOOSE e \in store : e.id = id, store |-> store]

\* getDownload: the entry returned (NoEntry for null) and the store after the call
getDownload(store, id, now) ==
    IF \A e \in store : e.id # id THEN [entry |-> NoEntry, store |-> store]
    ELSE LET entry == CHOOSE e \in store : e.id = id
         IN IF entry.expiresAt <= now
            THEN [entry |-> NoEntry, store |-> store \ {entry}]
            ELSE [entry |-> entry, store |-> store]

-----------------------------------------------------------------------------
(* index.ts (HTTP transport): the request handler of createServer. *)

MaxHttpReqs == 2

MaxHttpNow == 2

\* Bearer tokens clients send: alice's, bob's, one without sub, one signed with a
\* foreign key, one whose header is no JSON, one without scopes
HttpTokens ==
    {GoodToken, [GoodToken EXCEPT !.sub = "bob"], [GoodToken EXCEPT !.sub = ""],
     [GoodToken EXCEPT !.sigKey = "KX"], [GoodToken EXCEPT !.header = "garbage"],
     [GoodToken EXCEPT !.scope = [t |-> "absent", words |-> <<>>]]}

\* The credentials of a request: the Authorization header ("none": no header,
\* "empty": a header whose value is the empty string, "bearer" with the token,
\* "bearer-empty" for "Bearer " and nothing, "basic") and whether an x-user-token
\* header is sent, with its token
HttpCredentials ==
    {[authz |-> a, token |-> GoodToken, xuser |-> FALSE, xtoken |-> GoodToken] :
        a \in {"none", "bearer-empty"}}
    \cup {[authz |-> "bearer", token |-> t, xuser |-> FALSE, xtoken |-> GoodToken] :
             t \in HttpTokens}
    \cup {[authz |-> a, token |-> GoodToken, xuser |-> TRUE,
           xtoken |-> [GoodToken EXCEPT !.sub = "bob"]] :
             a \in {"none", "basic", "empty", "bearer"}}

\* What extractBearerToken returns: the header the value came from ("none" for
\* null), whether the value is a non-empty text, and the token it spells
NoCredential == [from |-> "none", present |-> FALSE, token |-> GoodToken]

\* extractBearerToken
extractBearerToken(cred, allowXUserToken) ==
    IF cred.authz = "bearer"
       THEN [from |-> "authorization", present |-> TRUE, token |-> cred.token]
    ELSE IF cred.authz = "bearer-empty"
       THEN [from |-> "authorization", present |-> FALSE, token |-> cred.token]
    ELSE IF cred.authz \notin {"none", "empty"} THEN NoCredential
    ELSE IF ~allowXUserToken THEN NoCredential
    ELSE IF cred.xuser
       THEN [from |-> "x-user-token", present |-> TRUE, token |-> cred.xtoken]
    ELSE NoCredential

HttpRequests ==
    {[path |-> p, method |-> "GET", cred |-> c, dlId |-> 0, tooBig |-> FALSE, body |-> ""] :
        p \in {"/healthz", "/other"}, c \in {cr \in HttpCredentials : cr.authz = "none" /\ ~cr.xuser}}
    \cup {[path |-> "/download/", method |-> m, cred |-> c, dlId |-> i, tooBig |-> FALSE,
           body |-> ""] :
        m \in {"GET", "HEAD", "POST"}, c \in HttpCredentials, i \in 0..MaxHttpReqs}
    \cup {[path |-> "/mcp", method |-> "POST", cred |-> c, dlId |-> 0, tooBig |-> big,
           body |-> b] :
        c \in HttpCredentials, big \in BOOLEAN, b \in {"render", "render-invalid", "tools/list"}}

InitReq ==
    [pc |-> "idle", path |-> "", method |-> "",
     cred |-> [authz |-> "none", token |-> GoodToken, xuser |-> FALSE, xtoken |-> GoodToken],
     dlId |-> 0, tooBig |-> FALSE, body |-> "", extracted |-> NoCredential,
     hasToken |-> FALSE, authFailed |-> FALSE, storeRead |-> FALSE, store0 |-> {},
     authed |-> FALSE, auth |-> NoJwt, status |-> 0, served |-> NoEntry, content |-> FALSE,
     transported |-> FALSE, toolRan |-> FALSE, stored |-> FALSE, nextId0 |-> 0]

\* res.statusCode = status; res.end(...)
HttpEnd(h, status) == [h EXCEPT !.req.pc = "done", !.req.status = status]

\* The catch block around authenticateRequest: the status for an error
authErrorStatus(err) == IF err.kind = "AppError" THEN err.status ELSE 401

\* A plausible slip: the /mcp branch does not test MCP_REQUIRE_AUTH
mcpGate_NoAuthTest(cfg, authed, tooBig) ==
    IF tooBig THEN 413 ELSE 0

\* The /mcp branch before the transport: 401, 413, or 0 to go on
mcpGate(cfg, authed, tooBig) ==
    IF cfg.MCP_REQUIRE_AUTH /\ ~authed THEN 401
    ELSE IF tooBig THEN 413
    ELSE 0

\* The /download/ branch for the entry storage.get returned: 403 or 200
downloadGate(cfg, authed, auth, file) ==
    IF cfg.DOWNLOAD_REQUIRE_AUTH /\ (~authed \/ auth.sub = "") THEN 403
    ELSE IF cfg.DOWNLOAD_REQUIRE_AUTH /\ file.ownerSub # "" /\ file.ownerSub # auth.sub THEN 403
    ELSE 200

\* A plausible slip: the /download/ branch serves every method
downloadMethodAllowed_Any(method) == TRUE

\* req.method !== "GET" && req.method !== "HEAD" is the 405 of the /download/ branch
downloadMethodAllowed(method) == method \in {"GET", "HEAD"}

\* The handler after authenticateRequest returned: routing by path
HttpRoute(h, now) ==
    LET r == h.req
        got == getDownload(h.store, r.dlId, now)
        h1 == [h EXCEPT !.store = got.store, !.req.storeRead = TRUE]
        gate == mcpGate(h.cfg, r.authed, r.tooBig)
    IN IF r.path = "/download/" THEN
            IF ~downloadMethodAllowed(r.method) THEN HttpEnd(h, 405)
            ELSE IF h.cfg.DOWNLOAD_REQUIRE_AUTH /\ ~r.authed THEN HttpEnd(h, 401)
            ELSE IF h.cfg.DOWNLOAD_BACKEND # "memory" THEN HttpEnd(h, 404)
            ELSE IF r.dlId = 0 THEN HttpEnd(h, 500)
            ELSE IF got.entry = NoEntry THEN HttpEnd(h1, 404)
            ELSE IF downloadGate(h.cfg, r.authed, r.auth, got.entry) # 200
                 THEN HttpEnd(h1, downloadGate(h.cfg, r.authed, r.auth, got.entry))
            ELSE [HttpEnd(h1, 200) EXCEPT !.req.served = got.entry,
                                          !.req.content = (r.method = "GET")]
       ELSE IF r.path # "/mcp" THEN HttpEnd(h, 404)
       ELSE IF gate # 0 THEN HttpEnd(h, gate)
       ELSE [h EXCEPT !.req.pc = "transport", !.req.transported = TRUE]

\* A request arrives: /healthz is answered at once; otherwise authenticateRequest
\* runs (no token or no JWT configuration: auth = null and the request is routed;
\* else verifyJwt starts)
HttpReceive ==
    /\ http.req.pc = "idle"
    /\ http.reqs < MaxHttpReqs
    /\ jwt.run.pc = "idle"
    /\ \E q \in HttpRequests :
         LET x == extractBearerToken(q.cred, http.cfg.ALLOW_X_USER_TOKEN)
             h0 == [http EXCEPT !.req = [InitReq EXCEPT !.pc = "auth", !.path = q.path,
                        !.method = q.method, !.cred = q.cred, !.dlId = q.dlId,
                        !.tooBig = q.tooBig, !.body = q.body, !.nextId0 = http.nextId,
                        !.store0 = http.store]]
             h1 == [h0 EXCEPT !.req.extracted = x, !.req.hasToken = x.present]
         IN IF q.path = "/healthz"
            THEN http' = HttpEnd(h0, 200) /\ UNCHANGED jwt
            ELSE IF ~x.present \/ ~http.cfg.jwtConfigured
            THEN http' = HttpRoute(h1, jwt.now) /\ UNCHANGED jwt
            ELSE http' = h1 /\ jwt' = JwtBegin(jwt, x.token)
    /\ OutsideHttp

\* verifyJwt has ended: its error becomes the response, or its VerifiedJwt is the
\* request's auth and the request is routed
HttpAuthDone ==
    /\ http.req.pc = "auth"
    /\ jwt.run.pc = "done"
    /\ jwt' = [jwt EXCEPT !.run = InitRun]
    /\ http' = IF ~IsOk(jwt.run.res)
               THEN HttpEnd([http EXCEPT !.req.authFailed = TRUE],
                            authErrorStatus(jwt.run.res))
               ELSE HttpRoute([http EXCEPT !.req.authed = TRUE, !.req.auth = jwt.run.out],
                              jwt.now)
    /\ OutsideHttp

\* transport.handleRequest: the tool call of the body runs; the render tool puts
\* its document into the storage with ownerSub = ctx.auth?.sub ?? null
HttpTool ==
    /\ http.req.pc = "transport"
    /\ LET r == http.req
           h1 == HttpEnd([http EXCEPT !.req.toolRan = (r.body # "tools/list")], 200)
       IN http' =
            IF r.body # "render" THEN h1
            ELSE IF http.cfg.DOWNLOAD_BACKEND # "memory" THEN [h1 EXCEPT !.req.stored = TRUE]
            ELSE [h1 EXCEPT !.req.stored = TRUE, !.nextId = @ + 1,
                            !.store = putDownload(http.store, http.nextId, "minutes.docx",
                                                  <<"docx">>, DOCX_MIME, r.auth.sub,
                                                  DOWNLOAD_TTL_MS, jwt.now)]
    /\ UNCHANGED jwt
    /\ OutsideHttp

\* The response is sent; the next request can come
HttpRespond ==
    /\ http.req.pc = "done"
    /\ http' = [http EXCEPT !.req = InitReq, !.reqs = @ + 1]
    /\ UNCHANGED jwt
    /\ OutsideHttp

\* fetchJwks answers while a request waits for verifyJwt
HttpJwksFetch ==
    /\ jwt.run.pc = "fetch"
    /\ \E outcome \in {"ok", "http-error", "network-error"} : jwt' = JwtFetched(jwt, outcome)
    /\ UNCHANGED http
    /\ OutsideHttp

HttpTick ==
    /\ jwt.now < MaxHttpNow
    /\ jwt' = [jwt EXCEPT !.now = @ + 1]
    /\ UNCHANGED http
    /\ OutsideHttp

\* loadConfig: the settings the server can start with (the JWT settings are
\* required as soon as one of the two auth flags is on)
HttpConfigs ==
    {c \in [MCP_REQUIRE_AUTH : BOOLEAN, DOWNLOAD_REQUIRE_AUTH : BOOLEAN,
            ALLOW_X_USER_TOKEN : BOOLEAN, jwtConfigured : BOOLEAN,
            DOWNLOAD_BACKEND : {"memory", "objectstore"}] :
        (c.MCP_REQUIRE_AUTH \/ c.DOWNLOAD_REQUIRE_AUTH) => c.jwtConfigured}

HttpInit ==
    /\ HttpOnly
    /\ jwt = JwtBoot(<<"read">>)
    /\ \E cfg \in HttpConfigs :
         http = [cfg |-> cfg, store |-> {}, nextId |-> 1, reqs |-> 0, req |-> InitReq]

HttpNext ==
    \/ HttpReceive
    \/ HttpAuthDone
    \/ HttpTool
    \/ HttpRespond
    \/ HttpJwksFetch
    \/ HttpTick

SpecHttp == HttpInit /\ [][HttpNext]_vars

\* C1: with DOWNLOAD_REQUIRE_AUTH, /download/{id} is answered 200 with the
\* artifact only when the request carries a verified token whose subject equals
\* the artifact's recorded owner; a request by anyone else gets no content
C1_AsStated ==
    (http.cfg.DOWNLOAD_REQUIRE_AUTH /\ http.req.pc = "done" /\ http.req.path = "/download/") =>
        /\ http.req.status = 200 =>
              /\ http.req.authed
              /\ http.req.auth.sub # ""
              /\ http.req.served.ownerSub = http.req.auth.sub
        /\ http.req.status # 200 => (http.req.served = NoEntry /\ ~http.req.content)

\* What holds of the code: a download is answered 200 only to a verified token
\* with a subject, and never when the entry records another subject as its owner
DownloadOwnerGuard ==
    (http.cfg.DOWNLOAD_REQUIRE_AUTH /\ http.req.pc = "done" /\ http.req.path = "/download/") =>
        /\ http.req.status = 200 =>
              /\ http.req.authed
              /\ http.req.auth.sub # ""
              /\ http.req.served.ownerSub \in {"", http.req.auth.sub}
        /\ http.req.status # 200 => (http.req.served = NoEntry /\ ~http.req.content)

\* The request's token passes the tests of verifyJwt at a time of this run
HttpTokenVerifies ==
    /\ http.req.hasToken
    /\ TokAllButTime(http.req.extracted.token, jwt.required)
    /\ \E t \in 0..MaxNow : TokTimeIfPresent(http.req.extracted.token, t)

\* The request went no further than the handler: no transport, no tool, no artifact
HttpStoppedBeforeTransport ==
    /\ ~http.req.transported /\ ~http.req.toolRan /\ ~http.req.stored
    /\ http.nextId = http.req.nextId0

\* C4: with MCP_REQUIRE_AUTH no /mcp request reaches the transport unless its
\* token was verified by verifyJwt; a request without a token gets 401, a request
\* whose token fails verification gets 401 or 403, and in both cases no tool runs
\* and no artifact is stored
C4_McpRequiresAuth ==
    (http.cfg.MCP_REQUIRE_AUTH /\ http.req.path = "/mcp") =>
        /\ (http.req.transported \/ http.req.toolRan \/ http.req.stored) =>
              (http.req.authed /\ HttpTokenVerifies)
        /\ (http.req.pc = "done" /\ ~http.req.hasToken) =>
              (http.req.status = 401 /\ HttpStoppedBeforeTransport)
        /\ (http.req.pc = "done" /\ http.req.authFailed) =>
              (http.req.status \in {401, 403} /\ HttpStoppedBeforeTransport)
        /\ (http.req.pc = "done" /\ http.req.hasToken /\ ~HttpTokenVerifies) =>
              http.req.authFailed

\* C4 witness: a /mcp render request whose token lacks the required scope was
\* answered 403 after the JWKS had been fetched, and nothing was stored
C4_Witness ==
    /\ http.cfg.MCP_REQUIRE_AUTH /\ http.req.path = "/mcp" /\ http.req.body = "render"
    /\ http.req.pc = "done" /\ http.req.authFailed /\ http.req.status = 403
    /\ jwt.cache.set
    /\ HttpStoppedBeforeTransport

\* The request left the download store as it was at its arrival and never called
\* storage.get
HttpStoreUntouched == ~http.req.storeRead /\ http.store = http.req.store0

\* C21: every request to /download/{id} whose method is neither GET nor HEAD is
\* answered 405, and the store is neither read nor modified by it
C21_AsStated ==
    (http.req.pc = "done" /\ http.req.path = "/download/"
       /\ http.req.method \notin {"GET", "HEAD"}) =>
        (http.req.status = 405 /\ HttpStoreUntouched)

\* C21 as the code has it: authenticateRequest runs before the routing, so the
\* request is answered 405 unless its token failed verification, which is answered
\* 401 or 403; in every case the store is neither read nor modified
C21_MethodNotAllowed ==
    (http.req.path = "/download/" /\ http.req.method \notin {"GET", "HEAD"}) =>
        /\ HttpStoreUntouched
        /\ http.req.pc = "done" =>
              /\ http.req.authFailed => http.req.status \in {401, 403}
              /\ ~http.req.authFailed => http.req.status = 405

\* C21 witness: a POST to the /download/ path of a resident artifact, sent with
\* its owner's verified token, was answered 405 and the artifact is still there
C21_Witness ==
    /\ http.req.pc = "done" /\ http.req.path = "/download/" /\ http.req.method = "POST"
    /\ http.req.authed /\ http.req.status = 405
    /\ \E e \in http.store : e.id = http.req.dlId /\ e.ownerSub = http.req.auth.sub
    /\ HttpStoreUntouched

\* C29: extractBearerToken yields the Authorization header's token whenever the
\* header uses the Bearer scheme; it yields the x-user-token header only when no
\* Authorization header is present at all and ALLOW_X_USER_TOKEN is on; a request
\* whose Authorization header is present but not Bearer carries no credential, is
\* not served from x-user-token and is not rejected for its credential
C29_AsStated ==
    (http.req.pc # "idle" /\ http.req.path # "/healthz") =>
        /\ http.req.cred.authz = "bearer" =>
              http.req.extracted = [from |-> "authorization", present |-> TRUE,
                                    token |-> http.req.cred.token]
        /\ http.req.extracted.from = "x-user-token" =>
              /\ http.req.cred.authz = "none" /\ http.cfg.ALLOW_X_USER_TOKEN
              /\ http.req.cred.xuser /\ http.req.extracted.token = http.req.cred.xtoken
        /\ http.req.cred.authz \in {"basic", "empty"} =>
              (~http.req.hasToken /\ ~http.req.authed /\ ~http.req.authFailed)

-----------------------------------------------------------------------------
(* graph/retryAfterMiddleware.ts and graph/client.ts request: one request     *)
(* through the retry middleware, against an upstream that answers as it likes. *)

\* new RetryAfterMiddleware({ maxRetries }): retries, not counting the first attempt
maxRetries == 2

baseDelayMs == 500

maxDelayMs == 30000

RECURSIVE Pow2(_)
Pow2(n) == IF n = 0 THEN 1 ELSE 2 * Pow2(n - 1)

\* Statuses the upstream answers with
RtStatuses == {200, 403, 404, 429, 500, 503}

\* The Retry-After header of a response: absent, a number of seconds, or text that
\* Number() turns into NaN (an HTTP date)
NoHeader == [kind |-> "absent", seconds |-> 0]

SecondsHeader(n) == [kind |-> "number", seconds |-> n]

DateHeader == [kind |-> "date", seconds |-> 0]

RtHeaders ==
    {NoHeader, DateHeader, SecondsHeader(0 - 1), SecondsHeader(0), SecondsHeader(2),
     SecondsHeader(60)}

\* Math.floor(Math.random() * 250): the ends of its range
RtJitters == {0, 249}

\* A plausible slip: 5xx answers are retried like throttling
isRetryable_Any5xx(status) == status = 429 \/ status >= 500

\* execute: "treat 429 + 503 as retryable throttling"
isRetryable(status) == status = 429 \/ status = 503

\* A plausible slip: the last attempt is followed by one more wait
retryExhausted_OffByOne(attempt) == attempt > maxRetries

\* execute: if (attempt >= this.opts.maxRetries) return
retryExhausted(attempt) == attempt >= maxRetries

\* A plausible slip: the backoff does not grow with the attempts
retryDelay_NoDoubling(header, attempt, jitter) ==
    IF header.kind = "number" /\ header.seconds >= 0
    THEN Min(header.seconds * 1000, maxDelayMs)
    ELSE Min(baseDelayMs + jitter, maxDelayMs)

\* A plausible slip: the Retry-After header is not read
retryDelay_HeaderIgnored(header, attempt, jitter) ==
    Min(baseDelayMs * Pow2(attempt) + jitter, maxDelayMs)

\* execute: the delay before the next attempt, from Retry-After where it is a
\* number that is not negative, else exponential backoff with jitter
retryDelay(header, attempt, jitter) ==
    IF header.kind = "number" /\ header.seconds >= 0
    THEN Min(header.seconds * 1000, maxDelayMs)
    ELSE Min(baseDelayMs * Pow2(attempt) + jitter, maxDelayMs)

\* request: the value or the error for the response the middleware chain left
requestResult(status) ==
    IF status >= 200 /\ status <= 299 THEN OkRes ELSE graphRequestError(status)

InitRetry == [pc |-> "idle", attempt |-> 0, statuses |-> <<>>, headers |-> <<>>,
              delays |-> <<>>, res |-> NoRes]

\* graph.request is called: the chain runs to the first await of execute
RetryRequest ==
    /\ rt.pc = "idle"
    /\ rt' = [rt EXCEPT !.pc = "await"]
    /\ OutsideRetry

\* The rest of the chain settles: a response arrives, or the send fails. execute
\* returns, or starts to sleep; where it returns, request turns the response into
\* its result
RetryResponse ==
    /\ rt.pc = "await"
    /\ \E failed \in BOOLEAN, status \in RtStatuses, header \in RtHeaders, jitter \in RtJitters :
         rt' = IF failed
               THEN [rt EXCEPT !.pc = "done", !.statuses = Append(@, 0),
                               !.headers = Append(@, NoHeader),
                               !.res = UntypedError("GraphClientError")]
               ELSE IF ~isRetryable(status) \/ retryExhausted(rt.attempt)
               THEN [rt EXCEPT !.pc = "done", !.statuses = Append(@, status),
                               !.headers = Append(@, header),
                               !.res = requestResult(status)]
               ELSE [rt EXCEPT !.pc = "sleep", !.statuses = Append(@, status),
                               !.headers = Append(@, header),
                               !.delays = Append(@, retryDelay(header, rt.attempt, jitter))]
    /\ OutsideRetry

\* sleepMs is over: attempt++, and the loop goes on while attempt <= maxRetries
RetryWake ==
    /\ rt.pc = "sleep"
    /\ rt' = IF rt.attempt + 1 <= maxRetries
             THEN [rt EXCEPT !.pc = "await", !.attempt = @ + 1]
             ELSE [rt EXCEPT !.pc = "done", !.attempt = @ + 1,
                             !.res = requestResult(rt.statuses[Len(rt.statuses)])]
    /\ OutsideRetry

RetryInit ==
    /\ RetryOnly
    /\ rt = InitRetry

RetryNext ==
    \/ RetryRequest
    \/ RetryResponse
    \/ RetryWake

SpecRetry == RetryInit /\ [][RetryNext]_vars

\* Attempts made so far (calls of the next middleware that have settled)
RtAttempts == Len(rt.statuses)

RtThrottled(i) == rt.statuses[i] = 429 \/ rt.statuses[i] = 503

RtLast == rt.statuses[RtAttempts]

\* C14: against an upstream that answers every attempt with 503 or 429 the
\* middleware makes exactly maxRetries + 1 attempts and then stops; against any
\* upstream it makes at most maxRetries + 1 attempts, with at most maxRetries
\* waits of at most maxDelayMs each
C14_AttemptCeiling ==
    /\ RtAttempts <= maxRetries + 1
    /\ Len(rt.delays) <= maxRetries
    /\ \A i \in 1..Len(rt.delays) : rt.delays[i] >= 0 /\ rt.delays[i] <= maxDelayMs
    /\ RtAttempts = maxRetries + 1 => rt.pc = "done"
    /\ (rt.pc = "done" /\ \A i \in 1..RtAttempts : RtThrottled(i)) =>
          /\ RtAttempts = maxRetries + 1
          /\ Len(rt.delays) = maxRetries

\* C14 witness: every attempt was answered 503, the last one ended the request,
\* and one of the waits was cut to maxDelayMs
C14_Witness ==
    /\ rt.pc = "done"
    /\ RtAttempts = maxRetries + 1
    /\ \A i \in 1..RtAttempts : rt.statuses[i] = 503
    /\ \E i \in 1..Len(rt.delays) : rt.delays[i] = maxDelayMs

\* C15: when the last allowed attempt is still answered with 429 or with 503,
\* graph.request raises an error with code TooManyRequests and returns no value
C15_AsStated ==
    (rt.pc = "done" /\ RtAttempts = maxRetries + 1 /\ RtThrottled(RtAttempts)) =>
        rt.res.kind = "AppError" /\ rt.res.code = "TooManyRequests"

\* C15, the part the code keeps: exhaustion on 429 raises TooManyRequests, and
\* exhaustion on either status returns no value
C15_ExhaustedOn429 ==
    (rt.pc = "done" /\ RtAttempts = maxRetries + 1 /\ RtThrottled(RtAttempts)) =>
        /\ rt.res.kind = "AppError"
        /\ RtLast = 429 => rt.res = AppError(429, "TooManyRequests")

\* C16: an answer with a status other than 429 and 503 ends the request after
\* that attempt without a wait; every attempt that was followed by another one
\* was answered 429 or 503
C16_NonRetryableShortCircuit ==
    /\ (RtAttempts >= 1 /\ ~RtThrottled(1)) =>
          rt.pc = "done" /\ RtAttempts = 1 /\ rt.delays = <<>>
    /\ (RtAttempts >= 1 /\ ~RtThrottled(RtAttempts)) => rt.pc = "done"
    /\ \A i \in 1..(RtAttempts - 1) : RtThrottled(i)
    /\ Len(rt.delays) <= RtAttempts

\* C16 witness: the first answer was 500 and the request ended with its error
C16_Witness ==
    /\ rt.pc = "done"
    /\ rt.statuses = <<500>> /\ rt.delays = <<>>
    /\ rt.res = AppError(500, "GraphError")

\* C17: when throttled attempts are followed, within the budget, by an answer
\* that is not 429 or 503, the caller gets the result of that last attempt; a wait
\* after a numeric Retry-After lasts that many seconds (at most maxDelayMs), so
\* 429 with Retry-After: 2 and then 200 is a success after one wait of 2000 ms
C17_RecoversAfterThrottling ==
    /\ (rt.pc = "done" /\ RtAttempts >= 2 /\ RtLast # 0 /\ ~RtThrottled(RtAttempts)) =>
          /\ rt.res = requestResult(RtLast)
          /\ RtLast = 200 => IsOk(rt.res)
          /\ Len(rt.delays) = RtAttempts - 1
    /\ \A i \in 1..Len(rt.delays) :
          (rt.headers[i].kind = "number" /\ rt.headers[i].seconds >= 0) =>
              rt.delays[i] = Min(rt.headers[i].seconds * 1000, maxDelayMs)
    /\ (rt.pc = "done" /\ rt.statuses = <<429, 200>> /\ rt.headers[1] = SecondsHeader(2)) =>
          IsOk(rt.res) /\ rt.delays = <<2000>>

\* C17 witness: 429 with Retry-After: 2, then 200
C17_Witness ==
    /\ rt.pc = "done"
    /\ rt.statuses = <<429, 200>> /\ rt.headers[1] = SecondsHeader(2)
    /\ rt.delays = <<2000>>
    /\ IsOk(rt.res)

\* Math.floor(Math.random() * 250): every value it can take
JITTER_RANGE == 250

\* C34: the wait after attempt number a (counted from 0) is
\* min(seconds * 1000, maxDelayMs) when the answer carried a Retry-After that is
\* a number and not negative, and otherwise min(baseDelayMs * 2^a + jitter,
\* maxDelayMs) with 0 <= jitter < 250; every wait lies between 0 and maxDelayMs
C34_WaitLength ==
    \A i \in 1..Len(rt.delays) :
        /\ rt.delays[i] >= 0 /\ rt.delays[i] <= maxDelayMs
        /\ IF rt.headers[i].kind = "number" /\ rt.headers[i].seconds >= 0
           THEN (rt.headers[i].seconds * 1000 <= maxDelayMs
                    => rt.delays[i] = rt.headers[i].seconds * 1000)
                /\ (rt.headers[i].seconds * 1000 > maxDelayMs => rt.delays[i] = maxDelayMs)
           ELSE \/ rt.delays[i] = maxDelayMs
                      /\ baseDelayMs * Pow2(i - 1) + JITTER_RANGE - 1 >= maxDelayMs
                \/ rt.delays[i] - baseDelayMs * Pow2(i - 1) \in 0..(JITTER_RANGE - 1)

\* C34 witness: a first wait of zero after Retry-After: 0, and a second wait by
\* backoff, twice the base plus the largest jitter, after an answer without
\* the header
C34_Witness ==
    /\ Len(rt.delays) = 2
    /\ rt.headers[1] = SecondsHeader(0) /\ rt.delays[1] = 0
    /\ rt.headers[2] = NoHeader /\ rt.delays[2] = 2 * baseDelayMs + JITTER_RANGE - 1

-----------------------------------------------------------------------------
(* The in-memory download store on its own: puts, gets, deliveries and the     *)
(* clock, in any order.                                                        *)

MaxPuts == 4

MaxStoreNow == 2

\* The artifact handed to the n-th putDownload: no two have the same bytes, and
\* names and MIME types take turns
DsFile(n) ==
    [fileName |-> IF n % 2 = 1 THEN "a.docx" ELSE "b.docx",
     content |-> <<"bytes", n>>,
     mimeType |-> IF n % 2 = 1 THEN DOCX_MIME ELSE "text/plain"]

\* ttlMs as storage.put passes it on: 0 stands for a value putDownload replaces
\* by the default
DsTtls == {0, 1}

NoOp == [op |-> "none", id |-> 0, at |-> 0, afterPut |-> FALSE, entry |-> NoEntry,
         status |-> 0, body |-> <<>>, contentType |-> "", disposition |-> "", before |-> {}]

\* The call before this one was the put that created id, at this very time
DsJustPut(id) == ds.last.op = "put" /\ ds.last.id = id /\ ds.last.at = ds.now

\* putDownload(fileName, content, mimeType, ownerSub, ttlMs)
StorePut ==
    /\ ds.nextId <= MaxPuts
    /\ \E ttlMs \in DsTtls :
         LET file == DsFile(ds.nextId)
             store == putDownload(ds.store, ds.nextId, file.fileName, file.content,
                                  file.mimeType, "alice", ttlMs, ds.now)
             entry == CHOOSE e \in store : e.id = ds.nextId
         IN ds' = [ds EXCEPT !.store = store, !.nextId = @ + 1,
                             !.hist = Append(@, entry),
                             !.last = [NoOp EXCEPT !.op = "put", !.id = ds.nextId,
                                                   !.at = ds.now, !.entry = entry,
                                                   !.before = ds.store]]
    /\ OutsideStore

\* getDownload(id), for an id handed out before or one never handed out
StoreGet ==
    /\ \E id \in 1..ds.nextId :
         LET got == getDownload(ds.store, id, ds.now)
         IN ds' = [ds EXCEPT !.store = got.store,
                             !.last = [NoOp EXCEPT !.op = "get", !.id = id, !.at = ds.now,
                                                   !.afterPut = DsJustPut(id),
                                                   !.entry = got.entry]]
    /\ OutsideStore

\* GET /download/{id} where downloads need no token: storage.get, then 404 or
\* 200 with the entry's content, content-type and file name
StoreServe ==
    /\ \E id \in 1..ds.nextId :
         LET got == getDownload(ds.store, id, ds.now)
             file == got.entry
         IN ds' = [ds EXCEPT !.store = got.store,
                             !.last =
                                IF file = NoEntry
                                THEN [NoOp EXCEPT !.op = "serve", !.id = id, !.at = ds.now,
                                                  !.afterPut = DsJustPut(id),
                                                  !.status = 404]
                                ELSE [NoOp EXCEPT !.op = "serve", !.id = id, !.at = ds.now,
                                                  !.afterPut = DsJustPut(id),
                                                  !.status = 200, !.body = file.content,
                                                  !.contentType = file.mimeType,
                                                  !.disposition = file.fileName]]
    /\ OutsideStore

\* Date.now() advances
StoreTick ==
    /\ ds.now < MaxStoreNow
    /\ ds' = [ds EXCEPT !.now = @ + 1]
    /\ OutsideStore

StoreInit ==
    /\ StoreOnly
    /\ ds = [store |-> {}, now |-> 0, nextId |-> 1, hist |-> <<>>,
             last |-> NoOp]

StoreNext ==
    \/ StorePut
    \/ StoreGet
    \/ StoreServe
    \/ StoreTick

SpecStore == StoreInit /\ [][StoreNext]_vars

\* The last call was a get or a delivery of an artifact that a put created
DsAsked == ds.last.op \in {"get", "serve"} /\ ds.last.id <= Len(ds.hist)

\* The entry as the put created it
DsCreated == ds.hist[ds.last.id]

\* The last call handed the artifact out as it was created
DsHandedOut ==
    IF ds.last.op = "get" THEN ds.last.entry = DsCreated
    ELSE /\ ds.last.status = 200
         /\ ds.last.body = DsCreated.content
         /\ ds.last.contentType = DsCreated.mimeType
         /\ ds.last.disposition = DsCreated.fileName

\* The last call found nothing: null, or 404 without content
DsNotFound ==
    IF ds.last.op = "get" THEN ds.last.entry = NoEntry
    ELSE ds.last.status = 404 /\ ds.last.body = <<>>

\* C18: a get right after the put that created the artifact returns it; a get at
\* or after expiresAt returns null and leaves no entry of that id; a get never
\* returns an entry whose expiresAt has come; and a delivery right after the put
\* answers 200 with the stored bytes and MIME type
C18_GetWithinTtl ==
    /\ (DsAsked /\ ds.last.afterPut) => DsHandedOut
    /\ (DsAsked /\ ds.last.at >= DsCreated.expiresAt) =>
          /\ DsNotFound
          /\ \A e \in ds.store : e.id # ds.last.id
    /\ (ds.last.op = "get" /\ ds.last.entry # NoEntry) => ds.last.at < ds.last.entry.expiresAt
    /\ \A i \in 1..Len(ds.hist) : ds.hist[i].expiresAt > ds.hist[i].createdAt

\* C18 witness: an artifact that no eviction could have touched was asked for at
\* its expiresAt, and get returned null
C18_Witness ==
    /\ ds.last.op = "get" /\ ds.last.id <= Len(ds.hist)
    /\ Len(ds.hist) <= MAX_ENTRIES
    /\ ds.last.at = DsCreated.expiresAt
    /\ ds.last.entry = NoEntry

\* C19: the store never holds more than MAX_ENTRIES entries
C19_AsStated == Cardinality(ds.store) <= MAX_ENTRIES

\* C19, what the code keeps: never more than MAX_ENTRIES + 1 entries
C19_OneOverLimit == Cardinality(ds.store) <= MAX_ENTRIES + 1

\* C20 as stated: at every time before its expiresAt an artifact is handed out as
\* it was put, whatever happened in between; entries are never modified; after
\* the TTL the answer is not found
C20_AsStated ==
    /\ (DsAsked /\ ds.last.at < DsCreated.expiresAt) => DsHandedOut
    /\ (DsAsked /\ ds.last.at >= DsCreated.expiresAt) => DsNotFound
    /\ \A e \in ds.store : e = ds.hist[e.id]

\* C20: before its expiresAt an artifact is handed out as it was put, or, once
\* more than MAX_ENTRIES puts have followed it, possibly not found (evicted as the
\* oldest); what is handed out is never different from what was put; entries are
\* never modified; after the TTL the answer is not found
C20_UnchangedWhileResident ==
    /\ (DsAsked /\ ds.last.at < DsCreated.expiresAt) => (DsHandedOut \/ DsNotFound)
    /\ (DsAsked /\ ds.last.at < DsCreated.expiresAt
                /\ Len(ds.hist) - ds.last.id <= MAX_ENTRIES) => DsHandedOut
    /\ (DsAsked /\ ds.last.at >= DsCreated.expiresAt) => DsNotFound
    /\ (ds.last.op \in {"get", "serve"} /\ ds.last.id > Len(ds.hist)) => DsNotFound
    /\ \A e \in ds.store : e.id <= Len(ds.hist) /\ e = ds.hist[e.id]

\* C20 witness: the first artifact was handed out unchanged after two more puts
\* and a tick of the clock
C20_Witness ==
    /\ DsAsked /\ ds.last.id = 1
    /\ Len(ds.hist) >= 3
    /\ ds.last.at > DsCreated.createdAt /\ ds.last.at < DsCreated.expiresAt
    /\ DsHandedOut

\* The entries the last put found in the store that had not expired
DsLiveAtPut == {e \in ds.last.before : e.expiresAt > ds.last.at}

\* The unexpired entries the last put removed
DsEvicted == DsLiveAtPut \ ds.store

\* C39: when put evicts for capacity it evicts the oldest-created entries
\* first: no entry is evicted while one with a strictly smaller createdAt
\* stays, exactly the excess of the unexpired entries over MAX_ENTRIES is
\* evicted, and an unexpired entry is evicted only when the store is over
\* MAX_ENTRIES
C39_OldestEvictedFirst ==
    ds.last.op = "put" =>
       /\ \A e \in DsEvicted : \A r \in ds.store : ~(r.createdAt < e.createdAt)
       /\ Cardinality(DsEvicted) =
             IF Cardinality(DsLiveAtPut) > MAX_ENTRIES
             THEN Cardinality(DsLiveAtPut) - MAX_ENTRIES ELSE 0
       /\ DsEvicted # {} => Cardinality(DsLiveAtPut) > MAX_ENTRIES
       /\ \A e \in ds.last.before \ DsLiveAtPut : e \notin ds.store

\* C39 witness: a put evicted an unexpired entry while another entry created
\* at the same time as the evicted one stays
C39_Witness ==
    /\ ds.last.op = "put"
    /\ \E e \in DsEvicted : \E r \in ds.store : r.createdAt = e.createdAt

-----------------------------------------------------------------------------
(* btp/destination.ts: the delegated Graph token from the destination service. *)
(* Times are in units of 30 seconds.                                           *)

MaxBrokerNow == 3

MaxBrokerCalls == 2

\* The 60_000 ms a cached service token must still have, in units of the clock
SERVICE_TOKEN_MARGIN == 2

\* The lifetime taken when the token response has no numeric expires_in (300 s)
DEFAULT_EXPIRES_IN == 4

\* expires_in values the token endpoint answers with; 0 - 1 stands for a response
\* without a numeric expires_in
BkExpiresIn == {0 - 1, 1, 3}

BkCallers == {1, 2}

\* process.env.VCAP_SERVICES by what getDestinationBinding can tell about it:
\*   raw          "absent" (unset or ""), "garbage" (no JSON), "null" (the JSON
\*                text null), "object"
\*   destination  the destination property: "absent", "empty" ([]), "one"
\*   clientid, clientsecret, uri, tokenBase   whether credentials hold the field
Vcap(raw, destination, clientid, clientsecret, uri, tokenBase) ==
    [raw |-> raw, destination |-> destination, clientid |-> clientid,
     clientsecret |-> clientsecret, uri |-> uri, tokenBase |-> tokenBase]

GoodVcap == Vcap("object", "one", TRUE, TRUE, TRUE, TRUE)

BkEnvs ==
    {GoodVcap,
     Vcap("absent", "absent", FALSE, FALSE, FALSE, FALSE),
     Vcap("garbage", "absent", FALSE, FALSE, FALSE, FALSE),
     Vcap("null", "absent", FALSE, FALSE, FALSE, FALSE),
     Vcap("object", "absent", FALSE, FALSE, FALSE, FALSE),
     Vcap("object", "empty", FALSE, FALSE, FALSE, FALSE),
     Vcap("object", "one", FALSE, TRUE, TRUE, TRUE),
     Vcap("object", "one", TRUE, FALSE, TRUE, TRUE),
     Vcap("object", "one", TRUE, TRUE, FALSE, TRUE),
     Vcap("object", "one", TRUE, TRUE, TRUE, FALSE)}

\* parseVcapServices: OkRes where it returns the parsed value
parseVcapServices(env) ==
    IF env.raw = "absent" THEN AppError(500, "InternalError")
    ELSE IF env.raw = "garbage" THEN AppError(500, "InternalError")
    ELSE OkRes

\* getDestinationBinding: OkRes where it returns a binding; vcap.destination of
\* the value null throws a TypeError
getDestinationBinding(env) ==
    IF ~IsOk(parseVcapServices(env)) THEN parseVcapServices(env)
    ELSE IF env.raw = "null" THEN UntypedError("TypeError")
    ELSE IF env.destination # "one" THEN AppError(500, "InternalError")
    ELSE IF ~(env.clientid /\ env.clientsecret /\ env.uri /\ env.tokenBase)
         THEN AppError(500, "InternalError")
    ELSE OkRes

\* cachedServiceToken: null, or a token and its expiresAt
NoServiceToken == [set |-> FALSE, token |-> 0, expiresAt |-> 0]

ServiceToken(token, expiresAt) == [set |-> TRUE, token |-> token, expiresAt |-> expiresAt]

\* A plausible slip: the cached token is used until it expires
serviceTokenFresh_NoMargin(cache, now) == cache.set /\ cache.expiresAt - now > 0

\* The test of getDestinationServiceToken for using the cached token
serviceTokenFresh(cache, now) ==
    cache.set /\ cache.expiresAt - now > SERVICE_TOKEN_MARGIN

\* One call of getDelegatedGraphToken:
\*   checkAt, cache0   Date.now() and the cache when the call began
\*   tokenReqs, lookupReqs   requests sent to the token endpoint, to the broker
\*   presented, presentedAt  the service token of the lookup request and its time
\*   fromCache         whether that token was taken from the cache
\*   cached            the cache as this call wrote it
InitBkCall ==
    [pc |-> "idle", name |-> "", res |-> NoRes, checkAt |-> 0, cache0 |-> NoServiceToken,
     tokenReqs |-> 0, lookupReqs |-> 0, presented |-> NoServiceToken, presentedAt |-> 0,
     fromCache |-> FALSE, cached |-> NoServiceToken]

BkThrow(c, err) == [c EXCEPT !.pc = "done", !.res = err]

\* getDelegatedGraphToken up to its first request: the name, the binding, the
\* cached service token (and then the lookup request at once) or the token request
BrokerCall(k) ==
    /\ bk.call[k].pc = "idle"
    /\ bk.started < MaxBrokerCalls
    /\ \E name \in {"", "graph"} :
         LET c0 == [InitBkCall EXCEPT !.name = name, !.checkAt = bk.now, !.cache0 = bk.cache]
             binding == getDestinationBinding(bk.env)
         IN bk' = [bk EXCEPT !.started = @ + 1, !.call[k] =
              IF name = "" THEN BkThrow(c0, AppError(500, "InternalError"))
              ELSE IF ~IsOk(binding) THEN BkThrow(c0, binding)
              ELSE IF serviceTokenFresh(bk.cache, bk.now)
                 THEN [c0 EXCEPT !.pc = "lookup", !.lookupReqs = @ + 1,
                                 !.presented = bk.cache, !.presentedAt = bk.now,
                                 !.fromCache = TRUE]
              ELSE [c0 EXCEPT !.pc = "token", !.tokenReqs = @ + 1]]
    /\ OutsideBroker

\* The token endpoint answers: the new token is cached and presented to the
\* broker, or the call fails
BrokerTokenAnswer(k) ==
    /\ bk.call[k].pc = "token"
    /\ \E answer \in {"ok", "http-error", "no-access-token", "network-error"},
          expires \in BkExpiresIn :
         LET c == bk.call[k]
             expiresIn == IF expires < 0 THEN DEFAULT_EXPIRES_IN ELSE expires
             fresh == ServiceToken(bk.issued + 1, bk.now + expiresIn)
         IN /\ answer # "ok" => expires = 0 - 1
            /\ bk' =
                 IF answer = "network-error"
                    THEN [bk EXCEPT !.call[k] = BkThrow(c, UntypedError("TypeError"))]
                 ELSE IF answer # "ok"
                    THEN [bk EXCEPT !.call[k] = BkThrow(c, AppError(502, "InternalError"))]
                 ELSE [bk EXCEPT !.issued = @ + 1, !.cache = fresh,
                                 !.granted = Append(@, fresh.expiresAt),
                                 !.call[k] = [c EXCEPT !.pc = "lookup", !.lookupReqs = @ + 1,
                                                       !.presented = fresh,
                                                       !.presentedAt = bk.now,
                                                       !.cached = fresh]]
    /\ OutsideBroker

\* The broker answers the lookup
BrokerLookupAnswer(k) ==
    /\ bk.call[k].pc = "lookup"
    /\ \E answer \in {"ok", "http-error", "no-auth-tokens", "network-error"} :
         bk' = [bk EXCEPT !.call[k] =
                  IF answer = "ok" THEN [@ EXCEPT !.pc = "done", !.res = OkRes]
                  ELSE IF answer = "http-error" THEN BkThrow(@, AppError(502, "InternalError"))
                  ELSE IF answer = "no-auth-tokens"
                     THEN BkThrow(@, AppError(500, "InternalError"))
                  ELSE BkThrow(@, UntypedError("TypeError"))]
    /\ OutsideBroker

\* The caller has its token or its error; it may call again
BrokerReturn(k) ==
    /\ bk.call[k].pc = "done"
    /\ bk' = [bk EXCEPT !.call[k] = InitBkCall]
    /\ OutsideBroker

BrokerTick ==
    /\ bk.now < MaxBrokerNow
    /\ bk' = [bk EXCEPT !.now = @ + 1]
    /\ OutsideBroker

BrokerInit ==
    /\ BrokerOnly
    /\ \E env \in BkEnvs :
         bk = [env |-> env, cache |-> NoServiceToken, now |-> 0, started |-> 0, issued |-> 0,
               granted |-> <<>>, call |-> [k \in BkCallers |-> InitBkCall]]

BrokerNext ==
    \/ \E k \in BkCallers : BrokerCall(k)
    \/ \E k \in BkCallers : BrokerTokenAnswer(k)
    \/ \E k \in BkCallers : BrokerLookupAnswer(k)
    \/ \E k \in BkCallers : BrokerReturn(k)
    \/ BrokerTick

SpecBroker == BrokerInit /\ [][BrokerNext]_vars

\* The call got past the configuration: it used the cache or asked for a token
BkConfigured(c) == c.pc \in {"token", "lookup"} \/ c.tokenReqs + c.lookupReqs > 0

\* C22: the cached service token is used, without a request to the token
\* endpoint, only while it has more than 60 seconds left before its expiresAt;
\* otherwise a new token is requested and replaces the cached one; no token taken
\* from the cache is presented to the lookup with 60 seconds or less left
C22_ServiceTokenReuse ==
    \A k \in BkCallers :
        LET c == bk.call[k]
            left == c.cache0.expiresAt - c.checkAt
        IN BkConfigured(c) =>
             /\ c.tokenReqs = 0 <=> (c.cache0.set /\ left > SERVICE_TOKEN_MARGIN)
             /\ c.tokenReqs <= 1
             /\ c.lookupReqs > 0 =>
                  /\ c.fromCache =>
                       /\ c.tokenReqs = 0 /\ c.presented = c.cache0
                       /\ c.presented.expiresAt - c.presentedAt > SERVICE_TOKEN_MARGIN
                  /\ ~c.fromCache =>
                       /\ c.tokenReqs = 1 /\ c.presented = c.cached
                       /\ c.cached.set /\ c.cached # c.cache0

\* C22 witness: one call got its service token from the token endpoint, and a
\* later call, begun with exactly 60 seconds left on that cached token, asked the
\* token endpoint again and cached another token
C22_Witness ==
    \E k \in BkCallers :
        /\ bk.call[k].cache0.set
        /\ bk.call[k].cache0.expiresAt - bk.call[k].checkAt = SERVICE_TOKEN_MARGIN
        /\ bk.call[k].lookupReqs = 1 /\ ~bk.call[k].fromCache
        /\ bk.cache = bk.call[k].cached

\* The broker configuration is missing: no destination name, or VCAP_SERVICES
\* absent, no JSON, without a destination binding, or with a binding that lacks
\* a field
BkMisconfigured(c) ==
    \/ c.name = ""
    \/ bk.env.raw # "object"
    \/ bk.env.destination # "one"
    \/ ~(bk.env.clientid /\ bk.env.clientsecret /\ bk.env.uri /\ bk.env.tokenBase)

\* C23: with the broker configuration missing, getDelegatedGraphToken fails with
\* InternalError before any request to the token endpoint or the broker, and
\* leaves the cached service token as it was
C23_AsStated ==
    \A k \in BkCallers :
        (bk.call[k].pc # "idle" /\ BkMisconfigured(bk.call[k])) =>
            /\ bk.call[k].pc = "done"
            /\ bk.call[k].res = AppError(500, "InternalError")
            /\ bk.call[k].tokenReqs = 0 /\ bk.call[k].lookupReqs = 0
            /\ bk.call[k].cached = NoServiceToken

-----------------------------------------------------------------------------
(* auth/userIdentity.ts: the user identity read from the claims of a token. *)

\* The length userKey's readable part is clipped to (40 in the source)
USER_KEY_CLIP == 3

\* A claim of the payload: absent, a JSON number, or a string (its characters)
NoClaim == [t |-> "absent", s |-> <<>>]

NumClaim == [t |-> "number", s |-> <<>>]

StrClaim(s) == [t |-> "string", s |-> s]

BlankClaim == StrClaim(<<" ">>)

IsSpace(c) == c = " "

\* String.prototype.trim
RECURSIVE trimStart(_)
trimStart(s) == IF s # <<>> /\ IsSpace(Head(s)) THEN trimStart(Tail(s)) ELSE s

RECURSIVE trimEnd(_)
trimEnd(s) ==
    IF s # <<>> /\ IsSpace(s[Len(s)]) THEN trimEnd(SubSeq(s, 1, Len(s) - 1)) ELSE s

trim(s) == trimEnd(trimStart(s))

\* String.prototype.toLowerCase on the letters the model uses
lowerChar(c) ==
    IF c = "A" THEN "a" ELSE IF c = "E" THEN "e" ELSE IF c = "U" THEN "u" ELSE c

toLowerCase(s) == [i \in 1..Len(s) |-> lowerChar(s[i])]

\* The characters of the class [a-z0-9._-]
IsSafeChar(c) == c \in {"a", "b", "c", "e", "p", "q", "r", "s", "u", "x", "1", ".", "_", "-"}

\* replace(/[^a-z0-9._-]+/g, "_"): every run of other characters becomes one "_"
RECURSIVE replaceUnsafe(_, _)
replaceUnsafe(s, inRun) ==
    IF s = <<>> THEN <<>>
    ELSE IF IsSafeChar(Head(s)) THEN <<Head(s)>> \o replaceUnsafe(Tail(s), FALSE)
    ELSE IF inRun THEN replaceUnsafe(Tail(s), TRUE)
    ELSE <<"_">> \o replaceUnsafe(Tail(s), TRUE)

\* replace(/^_+|_+$/g, "")
RECURSIVE stripUnderscores(_)
stripUnderscores(s) ==
    IF s # <<>> /\ Head(s) = "_" THEN stripUnderscores(Tail(s))
    ELSE IF s # <<>> /\ s[Len(s)] = "_" THEN stripUnderscores(SubSeq(s, 1, Len(s) - 1))
    ELSE s

\* pickString: the value if it is a string with a character that is no white
\* space, else null (NoClaim)
pickString(value) ==
    IF value.t = "string" /\ Len(trim(value.s)) > 0 THEN value ELSE NoClaim

\* a ?? b on picked claims
Coalesce(a, b) == IF a # NoClaim THEN a ELSE b

\* normalizeUserKey: the readable part and the text the sha256 prefix is taken of
normalizeUserKey(raw) ==
    LET base == toLowerCase(trim(raw))
        safe == stripUnderscores(replaceUnsafe(base, FALSE))
        clipped == IF Len(safe) > USER_KEY_CLIP THEN SubSeq(safe, 1, USER_KEY_CLIP) ELSE safe
    IN [name |-> IF Len(clipped) > 0 THEN clipped ELSE <<"u", "s", "e", "r">>,
        hashOf |-> raw]

\* What the token is to decodeJwtPayload and getUserIdentityFromJwt:
\*   json   "no-dot" (fewer than two parts), "garbage" (the payload part is no
\*          JSON), "null" (the JSON text null), "object"
\*   exp    "absent", "past" (Date.now() / 1000 > exp), "future"
\*   email, extEmail (ext_attr.email), user_name, upn, preferred_username, sub
IdClaimValues(s) == {NoClaim, NumClaim, BlankClaim, StrClaim(s)}

IdTokens ==
    {[json |-> j, exp |-> "absent", email |-> NoClaim, extEmail |-> NoClaim,
      user_name |-> NoClaim, upn |-> NoClaim, preferred_username |-> NoClaim,
      sub |-> NoClaim] : j \in {"no-dot", "garbage", "null"}}
    \cup [json : {"object"}, exp : {"absent", "past", "future"},
          email : IdClaimValues(<<"A", "@", "b">>),
          extEmail : IdClaimValues(<<"E", "@", "x">>),
          user_name : IdClaimValues(<<" ", "U", "1", " ">>),
          upn : IdClaimValues(<<"@", "_">>),
          preferred_username : {NoClaim, StrClaim(<<"p", ".", "q", "-", "r">>)},
          sub : IdClaimValues(<<"s", "u", "b">>)]

NoIdentity == [userKey |-> <<>>, email |-> NoClaim, upn |-> NoClaim, subject |-> NoClaim,
               rawUserId |-> NoClaim]

\* decodeJwtPayload: OkRes where it returns what JSON.parse made of the payload
decodeJwtPayload(token) ==
    IF token.json \in {"no-dot", "garbage"} THEN AppError(401, "Unauthorized") ELSE OkRes

\* email ?? userName ?? upn ?? subject
rawUserIdOf(email, userName, upn, subject) ==
    Coalesce(email, Coalesce(userName, Coalesce(upn, subject)))

\* getUserIdentityFromJwt: the error thrown or OkRes, and the identity returned;
\* payload.exp of the value null throws a TypeError
getUserIdentityFromJwt(token) ==
    LET email == Coalesce(pickString(token.email), pickString(token.extEmail))
        userName == pickString(token.user_name)
        upn == Coalesce(pickString(token.upn), pickString(token.preferred_username))
        subject == pickString(token.sub)
        rawUserId == rawUserIdOf(email, userName, upn, subject)
    IN IF ~IsOk(decodeJwtPayload(token))
          THEN [res |-> decodeJwtPayload(token), out |-> NoIdentity]
       ELSE IF token.json = "null" THEN [res |-> UntypedError("TypeError"), out |-> NoIdentity]
       ELSE IF token.exp = "past" THEN [res |-> AppError(401, "Unauthorized"), out |-> NoIdentity]
       ELSE IF rawUserId = NoClaim
          THEN [res |-> AppError(401, "Unauthorized"), out |-> NoIdentity]
       ELSE [res |-> OkRes,
             out |-> [userKey |-> normalizeUserKey(rawUserId.s), email |-> email, upn |-> upn,
                      subject |-> subject, rawUserId |-> rawUserId]]

IdentityGet ==
    /\ ui.pc = "idle"
    /\ ui' = [ui EXCEPT !.pc = "done", !.res = getUserIdentityFromJwt(ui.token).res,
                        !.out = getUserIdentityFromJwt(ui.token).out]
    /\ OutsideIdentity

IdentityInit ==
    /\ IdentityOnly
    /\ \E token \in IdTokens : ui = [pc |-> "idle", token |-> token, res |-> NoRes,
                                    out |-> NoIdentity]

IdentityNext == IdentityGet

SpecIdentity == IdentityInit /\ [][IdentityNext]_vars

\* The identity claims of the token in the order email (email, ext_attr.email),
\* user_name, principal name (upn, preferred_username), sub
IdClaimOrder ==
    <<ui.token.email, ui.token.extEmail, ui.token.user_name, ui.token.upn,
      ui.token.preferred_username, ui.token.sub>>

\* The claim is a string with at least one character
IdNonEmpty(c) == c.t = "string" /\ Len(c.s) > 0

\* The claim is a string with a character that is no white space
IdNonBlank(c) == c.t = "string" /\ \E i \in 1..Len(c.s) : c.s[i] # " "

\* C24: getUserIdentityFromJwt takes as raw user identifier the first non-empty
\* claim in the order email, user_name, principal name, sub and derives userKey
\* from exactly that value; when none of these claims is a non-empty string it
\* fails with Unauthorized and returns no identity
C24_AsStated ==
    ui.pc = "done" =>
        /\ IsOk(ui.res) =>
              \E i \in 1..6 :
                 /\ IdNonEmpty(IdClaimOrder[i])
                 /\ \A j \in 1..(i - 1) : ~IdNonEmpty(IdClaimOrder[j])
                 /\ ui.out.rawUserId = IdClaimOrder[i]
                 /\ ui.out.userKey.hashOf = IdClaimOrder[i].s
        /\ (\A i \in 1..6 : ~IdNonEmpty(IdClaimOrder[i])) =>
              (ui.res = AppError(401, "Unauthorized") /\ ui.out = NoIdentity)

\* What the code keeps of it: for a payload that is a JSON object, with a claim of
\* nothing but white space counted as empty
IdFirstNonBlankClaim ==
    (ui.pc = "done" /\ ui.token.json = "object") =>
        /\ IsOk(ui.res) =>
              \E i \in 1..6 :
                 /\ IdNonBlank(IdClaimOrder[i])
                 /\ \A j \in 1..(i - 1) : ~IdNonBlank(IdClaimOrder[j])
                 /\ ui.out.rawUserId = IdClaimOrder[i]
                 /\ ui.out.userKey.hashOf = IdClaimOrder[i].s
        /\ (\A i \in 1..6 : ~IdNonBlank(IdClaimOrder[i])) =>
              (ui.res = AppError(401, "Unauthorized") /\ ui.out = NoIdentity)

-----------------------------------------------------------------------------
(* storage/objectStore.ts: presigned URLs (AWS Signature Version 4) and        *)
(* putObject. Texts are sequences of characters; sha256 and HMAC-SHA256 are    *)
(* the terms Sha256(data) and Hmac(key, data), equal only for equal arguments. *)

MaxObCalls == 2

MaxObNow == 2

\* expiresInSec of the presigned PUT
PUT_EXPIRES_SEC == 300

\* 60 * 60 * 24 * 7
WEEK_SEC == 604800

Sha256(data) == [fn |-> "sha256", data |-> data]

Hmac(key, data) == [fn |-> "hmac-sha256", key |-> key, data |-> data]

\* encodeRFC3986 on the characters object keys and query values are made of:
\* letters, digits, "-", "_", "." stay, " " and "/" are percent-encoded
encodeChar(c) == IF c = " " THEN "%20" ELSE IF c = "/" THEN "%2F" ELSE c

encodeRFC3986(value) == [i \in 1..Len(value) |-> encodeChar(value[i])]

\* What new URL(...) makes of a character of the path: a space is percent-encoded
urlPathChar(c) == IF c = " " THEN "%20" ELSE c

\* decodeURIComponent on a segment of url.pathname
decodeChar(c) == IF c = "%20" THEN " " ELSE IF c = "%2F" THEN "/" ELSE c

decodeURIComponent(seg) == [i \in 1..Len(seg) |-> decodeChar(seg[i])]

\* buildCanonicalUri: pathname.split("/"), each segment decoded and encoded again
buildCanonicalUri(pathname) ==
    [i \in 1..Len(pathname) |-> encodeRFC3986(decodeURIComponent(pathname[i]))]

\* getSignatureKey
getSignatureKey(secretKey, dateStamp, region, service) ==
    LET kDate == Hmac(<<"AWS4", secretKey>>, dateStamp)
        kRegion == Hmac(kDate, region)
        kService == Hmac(kRegion, service)
    IN Hmac(kService, "aws4_request")

\* localeCompare on the names of the query parameters of a presigned URL
QueryKeyRank(k) ==
    CASE k = <<"X-Amz-Algorithm">> -> 1
      [] k = <<"X-Amz-Credential">> -> 2
      [] k = <<"X-Amz-Date">> -> 3
      [] k = <<"X-Amz-Expires">> -> 4
      [] k = <<"X-Amz-Security-Token">> -> 5
      [] k = <<"X-Amz-SignedHeaders">> -> 6

\* Array.prototype.sort with the comparator of canonicalQuery (the names of the
\* parameters of one URL differ, so the values are never compared)
RECURSIVE insertSorted(_, _)
insertSorted(sorted, pair) ==
    IF sorted = <<>> THEN <<pair>>
    ELSE IF QueryKeyRank(pair[1]) < QueryKeyRank(Head(sorted)[1]) THEN <<pair>> \o sorted
    ELSE <<Head(sorted)>> \o insertSorted(Tail(sorted), pair)

RECURSIVE sortPairs(_)
sortPairs(pairs) ==
    IF pairs = <<>> THEN <<>> ELSE insertSorted(sortPairs(Tail(pairs)), Head(pairs))

\* A plausible slip: the parameters are left in the order they were pushed
canonicalQuery_Unsorted(params) ==
    [i \in 1..Len(params) |-> <<encodeRFC3986(params[i][1]), encodeRFC3986(params[i][2])>>]

\* canonicalQuery: the encoded pairs, sorted (joined by "=" and "&" in the source)
canonicalQuery(params) ==
    sortPairs([i \in 1..Len(params) |->
                  <<encodeRFC3986(params[i][1]), encodeRFC3986(params[i][2])>>])

\* toAmzDate(now) and its first eight characters: the clock of the model counts
\* half days
toAmzDate(now) == <<"T", ToString(now)>>

dateStampOf(now) == <<"D", ToString(now \div 2)>>

\* presignUrl; opts.url is [protocol, host, pathname] and has no query string
presignUrl(method, url, accessKey, secretKey, region, service, expiresInSec, sessionToken, now) ==
    LET amzDate == toAmzDate(now)
        dateStamp == dateStampOf(now)
        credentialScope == dateStamp \o <<"/", region, "/", service, "/", "aws4_request">>
        params == <<
            <<<<"X-Amz-Algorithm">>, <<"AWS4-HMAC-SHA256">>>>,
            <<<<"X-Amz-Credential">>, <<accessKey, "/">> \o credentialScope>>,
            <<<<"X-Amz-Date">>, amzDate>>,
            <<<<"X-Amz-Expires">>, <<ToString(expiresInSec)>>>>,
            <<<<"X-Amz-SignedHeaders">>, <<"host">>>> >>
            \o (IF sessionToken # "" THEN << <<<<"X-Amz-Security-Token">>, <<sessionToken>>>> >>
                ELSE <<>>)
        canonicalUri == buildCanonicalUri(url.pathname)
        query == canonicalQuery(params)
        canonicalRequest == <<method, canonicalUri, query, <<"host:">> \o url.host \o <<"\n">>,
                              "host",
                              "UNSIGNED-PAYLOAD">>
        stringToSign == <<"AWS4-HMAC-SHA256", amzDate, credentialScope,
                          Sha256(canonicalRequest)>>
        signingKey == getSignatureKey(secretKey, dateStamp, region, service)
    IN [protocol |-> url.protocol, host |-> url.host, uri |-> canonicalUri, query |-> query,
        signature |-> Hmac(signingKey, stringToSign)]

NoSignature == Hmac("", <<>>)

NoUrl == [protocol |-> "", host |-> <<>>, uri |-> <<>>, query |-> <<>>,
          signature |-> NoSignature]

\* The object store settings createStorage hands to putObject
ObCfgs ==
    [endpointHost : {<<"s3.example">>}, bucket : {"bkt"}, accessKey : {"AK"}, secretKey : {"SK"},
     region : {"eu-1"}, usePathStyle : BOOLEAN, prefix : {<<>>, <<"p", "/">>},
     sessionToken : {"", "session"}]

\* buildObjectUrl: the URL of the key, its path as new URL holds it
buildObjectUrl(cfg, key) ==
    LET encoded == [i \in 1..Len(key) |-> [j \in 1..Len(key[i]) |-> urlPathChar(key[i][j])]]
    IN IF cfg.usePathStyle
       THEN [protocol |-> "https:", host |-> cfg.endpointHost,
             pathname |-> <<<<>>, <<cfg.bucket>>>> \o encoded]
       ELSE [protocol |-> "https:", host |-> <<cfg.bucket, ".">> \o cfg.endpointHost,
             pathname |-> <<<<>>>> \o encoded]

\* The key of putObject as its "/"-separated segments: prefix, uuid, "__", fileName
objectKey(prefix, uuid, fileName) ==
    IF prefix = <<>> THEN <<uuid \o <<"__">> \o fileName>>
    ELSE <<<<prefix[1]>>, uuid \o <<"__">> \o fileName>>

\* File names validateOverrideFilename lets through
ObFileNames == {<<"a", ".docx">>, <<"M", " ", "1", "_", "b", ".docx">>}

\* ttlMs values: input.ttlMs ?? config.DOWNLOAD_TTL_MS
ObTtls == {0 - 5000, 0, 1, 999, 1000, 1001, 600000, 604800000, 604800001, 900000000}

\* Math.ceil(ms / 1000)
ceilSec(ms) == IF ms >= 0 THEN (ms + 999) \div 1000 ELSE 0 - ((0 - ms) \div 1000)

\* A plausible slip: the expiry of the GET URL is not bounded
getExpiresInSec_Unbounded(ttlMs) == ceilSec(ttlMs)

\* Math.min(Math.max(Math.ceil(input.ttlMs / 1000), 1), 60 * 60 * 24 * 7)
getExpiresInSec(ttlMs) ==
    LET c == ceilSec(ttlMs)
        lo == IF c > 1 THEN c ELSE 1
    IN IF lo < WEEK_SEC THEN lo ELSE WEEK_SEC

\* One call of putObject:
\*   events   what it has done, in order: the URLs presigned, the PUT sent
\*   putUrl, putAt, getUrl, getAt   the presigned URLs and the time of signing
NoObOut == [url |-> NoUrl, expiresAt |-> 0, key |-> <<>>]

InitObCall ==
    [pc |-> "idle", fileName |-> <<>>, ttlMs |-> 0, key |-> <<>>, events |-> <<>>,
     putUrl |-> NoUrl, putAt |-> 0, putExpires |-> 0, getUrl |-> NoUrl, getAt |-> 0,
     getExpires |-> 0, answer |-> "none", res |-> NoRes, out |-> NoObOut]

\* putObject up to the await of the upload: the key, the presigned PUT, the fetch
ObjectPut ==
    /\ ob.call.pc = "idle"
    /\ ob.calls < MaxObCalls
    /\ \E fileName \in ObFileNames, ttlMs \in ObTtls :
         LET key == objectKey(ob.cfg.prefix, <<"uuid", ToString(ob.calls + 1)>>, fileName)
             putSignedUrl == presignUrl("PUT", buildObjectUrl(ob.cfg, key), ob.cfg.accessKey,
                                        ob.cfg.secretKey, ob.cfg.region, "s3",
                                        PUT_EXPIRES_SEC, ob.cfg.sessionToken, ob.now)
         IN ob' = [ob EXCEPT !.calls = @ + 1, !.call =
                     [InitObCall EXCEPT !.pc = "put", !.fileName = fileName, !.ttlMs = ttlMs,
                                        !.key = key, !.putUrl = putSignedUrl,
                                        !.putAt = ob.now, !.putExpires = PUT_EXPIRES_SEC,
                                        !.events = <<"presign-put", "put-sent">>]]
    /\ OutsideObjectStore

\* The upload has ended: fetch threw or answered not ok (502 BadRequest), or the
\* GET URL is presigned and returned
ObjectPutAnswer ==
    /\ ob.call.pc = "put"
    /\ \E answer \in {"ok", "http-error", "network-error"} :
         LET c == [ob.call EXCEPT !.answer = answer]
             expiresInSec == getExpiresInSec(c.ttlMs)
             signedGetUrl == presignUrl("GET", buildObjectUrl(ob.cfg, c.key), ob.cfg.accessKey,
                                        ob.cfg.secretKey, ob.cfg.region, "s3", expiresInSec,
                                        ob.cfg.sessionToken, ob.now)
         IN ob' = [ob EXCEPT !.call =
                     IF answer # "ok"
                     THEN [c EXCEPT !.pc = "done", !.res = AppError(502, "BadRequest")]
                     ELSE [c EXCEPT !.pc = "done", !.res = OkRes, !.getUrl = signedGetUrl,
                                    !.getAt = ob.now, !.getExpires = expiresInSec,
                                    !.events = @ \o <<"presign-get">>,
                                    !.out = [url |-> signedGetUrl,
                                             expiresAt |-> ob.now + expiresInSec * 1000,
                                             key |-> c.key]]]
    /\ OutsideObjectStore

ObjectReturn ==
    /\ ob.call.pc = "done"
    /\ ob' = [ob EXCEPT !.call = InitObCall]
    /\ OutsideObjectStore

ObjectTick ==
    /\ ob.now < MaxObNow
    /\ ob' = [ob EXCEPT !.now = @ + 1]
    /\ OutsideObjectStore

ObjectStoreInit ==
    /\ ObjectStoreOnly
    /\ \E cfg \in ObCfgs : ob = [cfg |-> cfg, now |-> 0, calls |-> 0, call |-> InitObCall]

ObjectStoreNext ==
    \/ ObjectPut
    \/ ObjectPutAnswer
    \/ ObjectReturn
    \/ ObjectTick

SpecObjectStore == ObjectStoreInit /\ [][ObjectStoreNext]_vars

\* The value of a query parameter of a presigned URL
QueryValue(url, name) ==
    LET i == CHOOSE j \in 1..Len(url.query) : url.query[j][1] = name
    IN url.query[i][2]

\* e is ttlMs in seconds, rounded up, and bounded to 1 .. 604800
IsBoundedCeilOf(e, ttlMs) ==
    /\ e >= 1 /\ e <= WEEK_SEC
    /\ (e > 1 /\ e < WEEK_SEC) => (e * 1000 >= ttlMs /\ (e - 1) * 1000 < ttlMs)
    /\ e = 1 => ttlMs <= 1000
    /\ e = WEEK_SEC => ttlMs > (WEEK_SEC - 1) * 1000

\* C25: putObject first presigns a PUT with the fixed expiry of 300 seconds,
\* whatever the TTL, and uploads through it; only after the PUT succeeded it
\* presigns the GET URL, whose expiry is the TTL in seconds rounded up and bounded
\* to 1 .. 604800; when the PUT fails the call fails and returns no URL
C25_PutThenGet ==
    ob.call.pc # "idle" =>
        /\ SubSeq(ob.call.events, 1, 2) = <<"presign-put", "put-sent">>
        /\ ob.call.putExpires = 300
        /\ QueryValue(ob.call.putUrl, <<"X-Amz-Expires">>) = <<"300">>
        /\ Len(ob.call.events) > 2 =>
              (ob.call.events = <<"presign-put", "put-sent", "presign-get">>
               /\ ob.call.answer = "ok")
        /\ (ob.call.pc = "done" /\ ob.call.answer = "ok") =>
              /\ ob.call.res = OkRes
              /\ ob.call.out.url = ob.call.getUrl /\ ob.call.getUrl # NoUrl
              /\ IsBoundedCeilOf(ob.call.getExpires, ob.call.ttlMs)
              /\ QueryValue(ob.call.getUrl, <<"X-Amz-Expires">>)
                    = <<ToString(ob.call.getExpires)>>
              /\ ob.call.out.expiresAt = ob.call.getAt + ob.call.getExpires * 1000
        /\ (ob.call.pc = "done" /\ ob.call.answer # "ok") =>
              /\ ob.call.res = AppError(502, "BadRequest")
              /\ ob.call.out = NoObOut /\ ob.call.getUrl = NoUrl

\* C25 witness: a call with a TTL of more than a week returned, after its upload
\* succeeded, a GET URL that expires after 604800 seconds
C25_Witness ==
    /\ ob.call.pc = "done" /\ ob.call.answer = "ok"
    /\ ob.call.ttlMs > WEEK_SEC * 1000
    /\ QueryValue(ob.call.out.url, <<"X-Amz-Expires">>) = <<"604800">>
    /\ QueryValue(ob.call.putUrl, <<"X-Amz-Expires">>) = <<"300">>

\* Signature Version 4 for a presigned URL, as AWS defines it, for a request
\* given by its method, host, the segments of its path (not encoded), the set of
\* its query parameters, and the credentials, date and scope of the signer.
\* UriEncode: unreserved characters stay, every other one is percent-encoded
RefUriEncode(text) ==
    [i \in 1..Len(text) |->
        CASE text[i] = " " -> "%20"
          [] text[i] = "/" -> "%2F"
          [] OTHER -> text[i]]

\* The names of the query parameters in ascending order of their code points
RefNamesAscending ==
    <<"X-Amz-Algorithm", "X-Amz-Credential", "X-Amz-Date", "X-Amz-Expires",
      "X-Amz-Security-Token", "X-Amz-SignedHeaders">>

RECURSIVE RefCanonicalQuery(_, _)
RefCanonicalQuery(params, from) ==
    IF from > Len(RefNamesAscending) THEN <<>>
    ELSE LET name == RefNamesAscending[from]
             here == {q \in params : q.name = name}
         IN (IF here = {} THEN <<>>
             ELSE LET q == CHOOSE x \in here : TRUE
                  IN << <<RefUriEncode(<<q.name>>), RefUriEncode(q.value)>> >>)
            \o RefCanonicalQuery(params, from + 1)

RefSignature(method, host, path, params, secretKey, amzDate, dateStamp, region, service) ==
    LET scope == dateStamp \o <<"/", region, "/", service, "/", "aws4_request">>
        canonicalRequest ==
            <<method, [i \in 1..Len(path) |-> RefUriEncode(path[i])],
              RefCanonicalQuery(params, 1), <<"host:">> \o host \o <<"\n">>, "host",
              "UNSIGNED-PAYLOAD">>
        stringToSign == <<"AWS4-HMAC-SHA256", amzDate, scope, Sha256(canonicalRequest)>>
        kSigning == Hmac(Hmac(Hmac(Hmac(<<"AWS4", secretKey>>, dateStamp), region), service),
                         "aws4_request")
    IN Hmac(kSigning, stringToSign)

\* The reference signature of the request putObject presigns: method, expiry and
\* time of signing given, the rest from the settings and the key of the call
ObReference(method, expiresInSec, at) ==
    LET cfg == ob.cfg
        amzDate == <<"T", ToString(at)>>
        dateStamp == <<"D", ToString(at \div 2)>>
        host == IF cfg.usePathStyle THEN cfg.endpointHost
                ELSE <<cfg.bucket, ".">> \o cfg.endpointHost
        path == IF cfg.usePathStyle THEN <<<<>>, <<cfg.bucket>>>> \o ob.call.key
                ELSE <<<<>>>> \o ob.call.key
        params ==
            {[name |-> "X-Amz-Algorithm", value |-> <<"AWS4-HMAC-SHA256">>],
             [name |-> "X-Amz-Credential",
              value |-> <<cfg.accessKey, "/">> \o dateStamp
                        \o <<"/", cfg.region, "/", "s3", "/", "aws4_request">>],
             [name |-> "X-Amz-Date", value |-> amzDate],
             [name |-> "X-Amz-Expires", value |-> <<ToString(expiresInSec)>>],
             [name |-> "X-Amz-SignedHeaders", value |-> <<"host">>]}
            \cup (IF cfg.sessionToken = "" THEN {}
                  ELSE {[name |-> "X-Amz-Security-Token", value |-> <<cfg.sessionToken>>]})
    IN RefSignature(method, host, path, params, cfg.secretKey, amzDate, dateStamp,
                    cfg.region, "s3")

-----------------------------------------------------------------------------
(* utils/errors.ts asToolErrorPayload and the wrapper registerTool is given. *)

MaxToolCalls == 2

\* What a tool or buildContext throws: an AppError (with or without details), an
\* Error that is no AppError (its message and stack are its own), or a value that
\* is no Error at all
ThrownAppError(status, code, message, details) ==
    [type |-> "AppError", status |-> status, code |-> code, message |-> message,
     details |-> details, stack |-> "stack"]

ThrownError(name, message) ==
    [type |-> name, status |-> 0, code |-> "", message |-> message, details |-> "undefined",
     stack |-> "stack"]

ThrownValue == [type |-> "string", status |-> 0, code |-> "", message |-> "text thrown",
                details |-> "undefined", stack |-> "undefined"]

NoThrown == [type |-> "none", status |-> 0, code |-> "", message |-> "", details |-> "undefined",
             stack |-> "undefined"]

TwThrowables ==
    {ThrownAppError(403, "Forbidden", "Cursor scope mismatch", "undefined"),
     ThrownAppError(400, "ValidationError", "Invalid input", "issues"),
     ThrownAppError(502, "BadRequest", "Object store upload failed", "status"),
     ThrownError("TypeError", "fetch failed: secret-host"),
     ThrownError("Error", "ENOENT /srv/template.docx"),
     ThrownValue}

\* A plausible slip: the message of every error is passed on
asToolErrorPayload_OwnMessage(toolName, err, requestId) ==
    [status |-> IF err.type = "AppError" THEN err.status ELSE 500,
     code |-> IF err.type = "AppError" THEN err.code ELSE "InternalError",
     message |-> err.message,
     toolName |-> toolName,
     requestId |-> IF requestId = "undefined" THEN "null" ELSE requestId,
     details |-> IF err.type = "AppError" /\ err.details # "undefined" THEN err.details
                 ELSE "null"]

\* asToolErrorPayload: the object under "error"
asToolErrorPayload(toolName, err, requestId) ==
    IF err.type = "AppError"
    THEN [status |-> err.status, code |-> err.code, message |-> err.message,
          toolName |-> toolName,
          requestId |-> IF requestId = "undefined" THEN "null" ELSE requestId,
          details |-> IF err.details = "undefined" THEN "null" ELSE err.details]
    ELSE [status |-> 500, code |-> "InternalError", message |-> "Unexpected server error",
          toolName |-> toolName,
          requestId |-> IF requestId = "undefined" THEN "null" ELSE requestId,
          details |-> "null"]

\* JSON.stringify of { error: payload }: the members of the object, a member whose
\* value is undefined left out
stringifyError(payload) ==
    [name \in {n \in DOMAIN payload : n = "status" \/ payload[n] # "undefined"} |->
        payload[name]]

\* What a handler returns: a ToolContentResult (handed on as it is), a value
\* JSON.stringify turns into text, or a value it throws a TypeError for (a BigInt,
\* a cyclic object)
TwOutputs == {"content-result", "plain-object", "unserialisable"}

NoToolResult == [isError |-> FALSE, content |-> "none", text |-> <<>>]

\* The two results of the wrapper
ToolSuccess(out) ==
    [isError |-> FALSE,
     content |-> IF out = "content-result" THEN "handler-content" ELSE "json-of-output",
     text |-> <<>>]

ToolFailure(toolName, err, requestId) ==
    [isError |-> TRUE, content |-> "json-of-error",
     text |-> stringifyError(asToolErrorPayload(toolName, err, requestId))]

InitTool ==
    [pc |-> "idle", toolName |-> "", requestId |-> "", handlerRan |-> FALSE, out |-> "none",
     err |-> NoThrown, result |-> NoToolResult, threw |-> FALSE]

\* The catch block of the wrapper: the payload is serialized and returned; were
\* err.details a value JSON.stringify throws for, the wrapper itself would throw
\* (no AppError of the program is made with such details)
wrapperCatch(c, err) ==
    IF err.type = "AppError" /\ err.details = "unserialisable"
    THEN [c EXCEPT !.pc = "done", !.err = err, !.threw = TRUE]
    ELSE [c EXCEPT !.pc = "done", !.err = err,
                   !.result = ToolFailure(c.toolName, err, c.requestId)]

\* The wrapper is called: requestId from the request context or randomUUID()
ToolInvoke ==
    /\ tw.call.pc = "idle"
    /\ tw.calls < MaxToolCalls
    /\ \E toolName \in {"minutes_render_and_upload_docx", "sp_list_protocols"},
          requestId \in {"req-header", "random-uuid"} :
         tw' = [tw EXCEPT !.calls = @ + 1,
                          !.call = [InitTool EXCEPT !.pc = "context", !.toolName = toolName,
                                                    !.requestId = requestId]]
    /\ OutsideTool

\* await buildContext(extra): it returns, or what it throws is caught
ToolBuildContext ==
    /\ tw.call.pc = "context"
    /\ \/ tw' = [tw EXCEPT !.call.pc = "handler"]
       \/ \E err \in TwThrowables : tw' = [tw EXCEPT !.call = wrapperCatch(tw.call, err)]
    /\ OutsideTool

\* await t.handler(ctx, args, requestId): its output is returned or serialized,
\* or what it (or JSON.stringify) throws is caught
ToolHandler ==
    /\ tw.call.pc = "handler"
    /\ \/ \E out \in TwOutputs :
            LET c == [tw.call EXCEPT !.handlerRan = TRUE, !.out = out]
                err == ThrownError("TypeError", "Do not know how to serialize a BigInt")
            IN tw' = [tw EXCEPT !.call =
                        IF out = "unserialisable" THEN wrapperCatch(c, err)
                        ELSE [c EXCEPT !.pc = "done", !.result = ToolSuccess(out)]]
       \/ \E err \in TwThrowables :
            tw' = [tw EXCEPT !.call = wrapperCatch([tw.call EXCEPT !.handlerRan = TRUE], err)]
    /\ OutsideTool

\* The result is with the MCP server; the next invocation can come
ToolReturn ==
    /\ tw.call.pc = "done"
    /\ tw' = [tw EXCEPT !.call = InitTool, !.last = tw.call.result]
    /\ OutsideTool

ToolInit ==
    /\ ToolOnly
    /\ tw = [calls |-> 0, call |-> InitTool, last |-> NoToolResult]

ToolNext ==
    \/ ToolInvoke
    \/ ToolBuildContext
    \/ ToolHandler
    \/ ToolReturn

SpecTool == ToolInit /\ [][ToolNext]_vars

\* The value of a member of the serialized error payload
TwMember(name) == tw.call.result.text[name]

-----------------------------------------------------------------------------
(* config.ts: loadConfig and the start of the server. A variable of the        *)
(* environment is "absent", "" (set to the empty string), or a text.           *)

\* Boolish: the boolean a text stands for, or "invalid"
Boolish(v) ==
    IF v \in {"true", "1", "yes"} THEN "true"
    ELSE IF v \in {"false", "0", "no"} THEN "false"
    ELSE "invalid"

\* splitList(raw).length === 0: nothing but commas and white space
listIsEmpty(raw) == raw \in {"absent", "", ","}

\* Settings of the same kind that are complete, or lack one, or lack all
LcJwtSettings ==
    {[JWT_ISSUER |-> i, JWT_AUDIENCE |-> a, JWT_JWKS_URL |-> j] :
        i \in {"absent", "https://issuer"}, a \in {"absent", "aud"},
        j \in {"absent", "https://issuer/jwks"}}

LcObjectStoreSettings ==
    {[OBJECTSTORE_ENDPOINT |-> "https://s3.example", OBJECTSTORE_BUCKET |-> "bkt",
      OBJECTSTORE_ACCESS_KEY |-> "AK", OBJECTSTORE_SECRET_KEY |-> "SK"]}
    \cup {[OBJECTSTORE_ENDPOINT |-> "absent", OBJECTSTORE_BUCKET |-> "bkt",
           OBJECTSTORE_ACCESS_KEY |-> "AK", OBJECTSTORE_SECRET_KEY |-> "SK"],
          [OBJECTSTORE_ENDPOINT |-> "https://s3.example", OBJECTSTORE_BUCKET |-> "absent",
           OBJECTSTORE_ACCESS_KEY |-> "AK", OBJECTSTORE_SECRET_KEY |-> "SK"],
          [OBJECTSTORE_ENDPOINT |-> "https://s3.example", OBJECTSTORE_BUCKET |-> "bkt",
           OBJECTSTORE_ACCESS_KEY |-> "absent", OBJECTSTORE_SECRET_KEY |-> "SK"],
          [OBJECTSTORE_ENDPOINT |-> "https://s3.example", OBJECTSTORE_BUCKET |-> "bkt",
           OBJECTSTORE_ACCESS_KEY |-> "AK", OBJECTSTORE_SECRET_KEY |-> "absent"],
          [OBJECTSTORE_ENDPOINT |-> "absent", OBJECTSTORE_BUCKET |-> "absent",
           OBJECTSTORE_ACCESS_KEY |-> "absent", OBJECTSTORE_SECRET_KEY |-> "absent"]}

\* process.env, the variables loadConfig looks at
LcEnvs ==
    [NODE_ENV : {"absent", "production"},
     MCP_HTTP_PORT : {"absent", "", "8080", "0"},
     PORT : {"absent", "3000"},
     MCP_HTTP_HOST : {"absent", "127.0.0.1", "localhost"},
     MCP_ALLOWED_HOSTS : {"absent", ",", "approuter.example"},
     MCP_ALLOWED_ORIGINS : {"absent", "https://approuter.example"},
     MCP_REQUIRE_AUTH : {"absent", "true", "false", "maybe"},
     DOWNLOAD_REQUIRE_AUTH : {"absent", "true", "false"},
     ALLOW_X_USER_TOKEN : {"absent", "true"},
     DOWNLOAD_BACKEND : {"absent", "memory", "objectstore"},
     jwt : LcJwtSettings,
     os : LcObjectStoreSettings]

\* EnvSchema.safeParse(effectiveEnv).success for the variables of the model:
\* the port is a whole number from 1 to 65535 if it is set, the booleans are
\* Boolish if they are set, and superRefine wants an allowlist for a host that is
\* neither 127.0.0.1 nor localhost (MCP_HTTP_HOST defaults to 0.0.0.0)
EnvSchemaSuccess(env, port) ==
    /\ port \in {"absent", "8080", "3000"}
    /\ env.MCP_REQUIRE_AUTH # "absent" => Boolish(env.MCP_REQUIRE_AUTH) # "invalid"
    /\ env.DOWNLOAD_REQUIRE_AUTH # "absent" => Boolish(env.DOWNLOAD_REQUIRE_AUTH) # "invalid"
    /\ env.ALLOW_X_USER_TOKEN # "absent" => Boolish(env.ALLOW_X_USER_TOKEN) # "invalid"
    /\ ~(env.MCP_HTTP_HOST \notin {"127.0.0.1", "localhost"}
         /\ listIsEmpty(env.MCP_ALLOWED_HOSTS) /\ listIsEmpty(env.MCP_ALLOWED_ORIGINS))

\* A plausible slip: auth is on only where it is asked for
requireAuthOf_NoProdDefault(value, isProd) == value # "absent" /\ Boolish(value) = "true"

\* parsed.data.MCP_REQUIRE_AUTH ?? isProd (and the same for DOWNLOAD_REQUIRE_AUTH)
requireAuthOf(value, isProd) == IF value = "absent" THEN isProd ELSE Boolish(value) = "true"

NoConfig ==
    [MCP_HTTP_PORT |-> "absent", MCP_REQUIRE_AUTH |-> FALSE, DOWNLOAD_REQUIRE_AUTH |-> FALSE,
     DOWNLOAD_BACKEND |-> "none", ALLOW_X_USER_TOKEN |-> FALSE]

\* loadConfig: whether it returns, and the settings it has made up
loadConfig(env) ==
    LET port == IF env.MCP_HTTP_PORT \in {"absent", ""} /\ env.PORT # "absent" THEN env.PORT
                ELSE env.MCP_HTTP_PORT
        isProd == env.NODE_ENV = "production"
        mcpRequireAuth == requireAuthOf(env.MCP_REQUIRE_AUTH, isProd)
        downloadRequireAuth == requireAuthOf(env.DOWNLOAD_REQUIRE_AUTH, isProd)
        downloadBackend == IF env.DOWNLOAD_BACKEND # "absent" THEN env.DOWNLOAD_BACKEND
                           ELSE IF isProd THEN "objectstore" ELSE "memory"
        allowXUserToken == env.ALLOW_X_USER_TOKEN # "absent"
                           /\ Boolish(env.ALLOW_X_USER_TOKEN) = "true"
        failed == [ok |-> FALSE, config |-> NoConfig]
    IN IF ~EnvSchemaSuccess(env, port) THEN failed
       ELSE IF port = "absent" THEN failed
       ELSE IF isProd /\ allowXUserToken THEN failed
       ELSE IF (mcpRequireAuth \/ downloadRequireAuth)
               /\ (env.jwt.JWT_ISSUER = "absent" \/ env.jwt.JWT_AUDIENCE = "absent"
                   \/ env.jwt.JWT_JWKS_URL = "absent") THEN failed
       ELSE IF downloadBackend = "objectstore"
               /\ \E k \in DOMAIN env.os : env.os[k] = "absent" THEN failed
       ELSE [ok |-> TRUE,
             config |-> [MCP_HTTP_PORT |-> port, MCP_REQUIRE_AUTH |-> mcpRequireAuth,
                         DOWNLOAD_REQUIRE_AUTH |-> downloadRequireAuth,
                         DOWNLOAD_BACKEND |-> downloadBackend,
                         ALLOW_X_USER_TOKEN |-> allowXUserToken]]

\* The module is loaded: const config = loadConfig(process.env); an error thrown
\* there ends the process
ConfigLoad ==
    /\ lc.pc = "boot"
    /\ lc' = [lc EXCEPT !.pc = IF loadConfig(lc.env).ok THEN "loaded" ELSE "exited",
                        !.config = loadConfig(lc.env).config]
    /\ OutsideConfig

\* httpServer.listen(port, host)
ConfigListen ==
    /\ lc.pc = "loaded"
    /\ lc' = [lc EXCEPT !.pc = "listening"]
    /\ OutsideConfig

ConfigInit ==
    /\ ConfigOnly
    /\ \E env \in LcEnvs : lc = [pc |-> "boot", env |-> env, config |-> NoConfig]

ConfigNext ==
    \/ ConfigLoad
    \/ ConfigListen

SpecConfig == ConfigInit /\ [][ConfigNext]_vars

\* The cases of the claim, read off the environment
LcProduction == lc.env.NODE_ENV = "production"

LcAuthEnabled ==
    \/ lc.env.MCP_REQUIRE_AUTH = "true" \/ lc.env.DOWNLOAD_REQUIRE_AUTH = "true"
    \/ LcProduction /\ (lc.env.MCP_REQUIRE_AUTH = "absent"
                        \/ lc.env.DOWNLOAD_REQUIRE_AUTH = "absent")

LcJwtIncomplete == \E k \in DOMAIN lc.env.jwt : lc.env.jwt[k] = "absent"

LcObjectStoreSelected ==
    \/ lc.env.DOWNLOAD_BACKEND = "objectstore"
    \/ LcProduction /\ lc.env.DOWNLOAD_BACKEND = "absent"

LcObjectStoreIncomplete == \E k \in DOMAIN lc.env.os : lc.env.os[k] = "absent"

LcNoAllowlist ==
    /\ lc.env.MCP_HTTP_HOST \notin {"127.0.0.1", "localhost"}
    /\ lc.env.MCP_ALLOWED_HOSTS \in {"absent", ","}
    /\ lc.env.MCP_ALLOWED_ORIGINS = "absent"

LcNoPort == lc.env.MCP_HTTP_PORT \in {"absent", ""} /\ lc.env.PORT = "absent"

\* C28: loadConfig fails, and the server never listens, when auth is enabled
\* (explicitly or by the production default) and a JWT setting is missing, when
\* the object store is selected (explicitly or by the production default) and one
\* of its four settings is missing, when the host is not local and both
\* allowlists are empty, when there is no port, or in production with
\* ALLOW_X_USER_TOKEN; a server that listens has complete settings for what it
\* has enabled
C28_FailsAtStartup ==
    /\ (lc.pc # "boot"
        /\ \/ LcAuthEnabled /\ LcJwtIncomplete
           \/ LcObjectStoreSelected /\ LcObjectStoreIncomplete
           \/ LcNoAllowlist
           \/ LcNoPort
           \/ LcProduction /\ lc.env.ALLOW_X_USER_TOKEN = "true")
          => lc.pc = "exited"
    /\ lc.pc = "listening" =>
          /\ (lc.config.MCP_REQUIRE_AUTH \/ lc.config.DOWNLOAD_REQUIRE_AUTH) => ~LcJwtIncomplete
          /\ lc.config.DOWNLOAD_BACKEND = "objectstore" => ~LcObjectStoreIncomplete
          /\ lc.config.MCP_HTTP_PORT \in {"8080", "3000"}
          /\ lc.config.MCP_REQUIRE_AUTH
                = (\/ lc.env.MCP_REQUIRE_AUTH = "true"
                   \/ LcProduction /\ lc.env.MCP_REQUIRE_AUTH = "absent")
          /\ lc.config.ALLOW_X_USER_TOKEN => ~LcProduction

\* C28 witness: in production, with nothing said about auth and the JWKS URL
\* missing, everything else complete, the process ended in loadConfig
C28_Witness ==
    /\ lc.pc = "exited"
    /\ LcProduction /\ lc.env.MCP_REQUIRE_AUTH = "absent"
    /\ lc.env.DOWNLOAD_REQUIRE_AUTH = "absent"
    /\ lc.env.jwt.JWT_JWKS_URL = "absent" /\ lc.env.jwt.JWT_ISSUER # "absent"
    /\ lc.env.jwt.JWT_AUDIENCE # "absent"
    /\ ~LcObjectStoreIncomplete /\ ~LcNoAllowlist /\ ~LcNoPort
    /\ lc.env.ALLOW_X_USER_TOKEN = "absent"

-----------------------------------------------------------------------------
(* auth/jwt.ts fetchJwks and getJwk under concurrent verifications: several     *)
(* verifyJwt calls are in flight, each suspended at an await of its own, and    *)
(* the identity provider may publish a new key while they run.                  *)

MaxJkNow == 3

MaxJkCalls == 3

JkRuns == 1..2

\* The kids of the key set the provider serves before and after it rotates
JkOldKids == {"k1"}

JkNewKids == {"k1", "k2"}

\* kids of the tokens presented; k9 is in no key set
JkTokenKids == {"k1", "k2", "k9"}

JkNoBody == [outcome |-> "none", kids |-> {}]

JkInitRun ==
    [pc |-> "idle", kid |-> "", keys |-> {}, body |-> JkNoBody, refreshed |-> FALSE,
     fetches |-> 0, refreshes |-> 0, cachedMiss |-> FALSE, res |-> NoRes]

\* fetchJwks: if (jwksCache && Date.now() < jwksCache.expiresAt)
jwksCacheFresh(cache, now) == cache.set /\ now < cache.expiresAt

\* A plausible slip: after the refresh the key is looked up in the cache, which
\* another verification may have replaced or discarded meanwhile
keysOfRun_FromCache(j, r) == j.cache.keys

\* getJwk: keys.get(kid) and refreshed.get(kid) read the Map fetchJwks returned
keysOfRun(j, r) == j.runs[r].keys

\* verifyJwt reaches getJwk -> fetchJwks: the cached key set, or a request
JwksGetJwk(r) ==
    /\ jk.runs[r].pc = "idle"
    /\ jk.calls < MaxJkCalls
    /\ \E kid \in JkTokenKids :
         jk' = [jk EXCEPT !.calls = @ + 1,
                  !.runs[r] =
                     IF jwksCacheFresh(jk.cache, jk.now)
                     THEN [JkInitRun EXCEPT !.pc = "keys", !.kid = kid, !.keys = jk.cache.keys,
                                            !.cachedMiss = kid \notin jk.cache.keys]
                     ELSE [JkInitRun EXCEPT !.pc = "request", !.kid = kid, !.fetches = 1]]
    /\ OutsideJwks

\* The JWKS endpoint answers the request of run r (or the request fails)
JwksAnswer(r) ==
    /\ jk.runs[r].pc = "request"
    /\ \E outcome \in {"ok", "http-error", "network-error"} :
         jk' = [jk EXCEPT !.runs[r].pc = "response",
                          !.runs[r].body = [outcome |-> outcome,
                                            kids |-> IF outcome = "ok" THEN jk.upstream ELSE {}]]
    /\ OutsideJwks

\* fetchJwks after its awaits: throw, or build the Map, replace the cache, return
JwksFetched(r) ==
    /\ jk.runs[r].pc = "response"
    /\ jk' = IF jk.runs[r].body.outcome = "network-error"
             THEN [jk EXCEPT !.runs[r].pc = "done", !.runs[r].res = UntypedError("TypeError")]
             ELSE IF jk.runs[r].body.outcome = "http-error"
             THEN [jk EXCEPT !.runs[r].pc = "done",
                             !.runs[r].res = AppError(401, "Unauthorized")]
             ELSE [jk EXCEPT !.runs[r].pc = "keys", !.runs[r].keys = jk.runs[r].body.kids,
                             !.cache = [set |-> TRUE, expiresAt |-> jk.now + JWT_JWKS_CACHE_MS,
                                        keys |-> jk.runs[r].body.kids],
                             !.written = @ \cup {jk.runs[r].body.kids}]
    /\ OutsideJwks

\* getJwk after an await of fetchJwks: the key, or discard the cache and fetch
\* again (the second fetchJwks finds no cache and requests), or Unauthorized
JwksLookup(r) ==
    /\ jk.runs[r].pc = "keys"
    /\ jk' = IF jk.runs[r].kid \in keysOfRun(jk, r)
             THEN [jk EXCEPT !.runs[r].pc = "done", !.runs[r].res = OkRes]
             ELSE IF ~jk.runs[r].refreshed
             THEN [jk EXCEPT !.cache = NoCache, !.runs[r].pc = "request",
                             !.runs[r].refreshed = TRUE, !.runs[r].fetches = @ + 1,
                             !.runs[r].refreshes = @ + 1]
             ELSE [jk EXCEPT !.runs[r].pc = "done",
                             !.runs[r].res = AppError(401, "Unauthorized")]
    /\ OutsideJwks

\* The verification is over; the slot is free for another request
JwksReturn(r) ==
    /\ jk.runs[r].pc = "done"
    /\ jk' = [jk EXCEPT !.runs[r] = JkInitRun]
    /\ OutsideJwks

\* The identity provider publishes the key k2
JwksRotate ==
    /\ jk.upstream = JkOldKids
    /\ jk' = [jk EXCEPT !.upstream = JkNewKids]
    /\ OutsideJwks

JwksTick ==
    /\ jk.now < MaxJkNow
    /\ jk' = [jk EXCEPT !.now = @ + 1]
    /\ OutsideJwks

JwksBoot ==
    [now |-> 0, cache |-> NoCache, upstream |-> JkOldKids, calls |-> 0,
     runs |-> [r \in JkRuns |-> JkInitRun], written |-> {}]

JwksInit ==
    /\ JwksOnly
    /\ jk = JwksBoot

JwksNext ==
    \/ \E r \in JkRuns : JwksGetJwk(r)
    \/ \E r \in JkRuns : JwksAnswer(r)
    \/ \E r \in JkRuns : JwksFetched(r)
    \/ \E r \in JkRuns : JwksLookup(r)
    \/ \E r \in JkRuns : JwksReturn(r)
    \/ JwksRotate
    \/ JwksTick

SpecJwks == JwksInit /\ [][JwksNext]_vars

\* C35: a verification that found a cached key set without the token's kid
\* discards the cache and requests the key set once; it succeeds if the
\* refreshed set holds the kid and fails with Unauthorized otherwise; no
\* verification forces more than one refresh
C35_AsStated ==
    \A r \in JkRuns :
        /\ jk.runs[r].refreshes <= 1
        /\ (jk.runs[r].cachedMiss /\ jk.runs[r].pc = "done") =>
              /\ jk.runs[r].refreshes = 1 /\ jk.runs[r].fetches = 1
              /\ IF jk.runs[r].kid \in jk.runs[r].body.kids THEN IsOk(jk.runs[r].res)
                 ELSE jk.runs[r].res = AppError(401, "Unauthorized")

\* The part of C35 that holds: one refresh at most, and a verdict by the
\* refreshed key set whenever the refresh was answered
JkRefreshOnce ==
    \A r \in JkRuns :
        /\ jk.runs[r].refreshes <= 1 /\ jk.runs[r].fetches <= 2
        /\ (jk.runs[r].cachedMiss /\ jk.runs[r].pc = "done") =>
              /\ jk.runs[r].refreshes = 1 /\ jk.runs[r].fetches = 1
              /\ jk.runs[r].body.outcome = "ok" =>
                    IF jk.runs[r].kid \in jk.runs[r].body.kids THEN IsOk(jk.runs[r].res)
                    ELSE jk.runs[r].res = AppError(401, "Unauthorized")
              /\ jk.runs[r].body.outcome = "http-error" =>
                    jk.runs[r].res = AppError(401, "Unauthorized")

\* A token signed with the newly published key was accepted while the cached
\* key set of before was still fresh
JkRotatedKeyAccepted ==
    \E r \in JkRuns :
        /\ jk.runs[r].cachedMiss /\ jk.runs[r].kid = "k2"
        /\ jk.runs[r].pc = "done" /\ IsOk(jk.runs[r].res)
        /\ jk.cache.keys = JkNewKids

-----------------------------------------------------------------------------
(* The two module-level caches side by side: the process serves concurrent     *)
(* requests that verify tokens (jwksCache) or exchange them (cachedServiceToken). *)
(* The caches share nothing, so a run exercises one of them.                    *)

CachesJwksStep ==
    /\ jk # <<>>
    /\ JwksNext

CachesBrokerStep ==
    /\ bk # <<>>
    /\ BrokerNext

CachesInit ==
    \/ JwksInit
    \/ BrokerInit

CachesNext ==
    \/ CachesJwksStep
    \/ CachesBrokerStep

SpecCaches == CachesInit /\ [][CachesNext]_vars

\* jwksCache is null or the whole key set of one answered request, with the
\* expiry set when it was stored; while the provider serves one key set, every
\* stored value is that set
JkCacheWhole ==
    /\ jk.cache.set =>
          /\ jk.cache.keys \in jk.written
          /\ jk.cache.keys \in {JkOldKids, JkNewKids}
          /\ jk.cache.expiresAt <= jk.now + JWT_JWKS_CACHE_MS
    /\ ~jk.cache.set => jk.cache = NoCache
    /\ jk.upstream = JkOldKids => jk.written \subseteq {JkOldKids}

\* A verification fails only on its own account: its request failed, or the key
\* set it was answered with lacks its kid; it looks its key up in a whole key
\* set, the cached one it began with or the one it fetched
JkOwnVerdict ==
    \A r \in JkRuns :
        LET run == jk.runs[r] IN
        /\ run.pc = "keys" => run.keys \in {JkOldKids, JkNewKids}
        /\ run.pc = "done" =>
              /\ IsOk(run.res) => run.kid \in run.keys
              /\ run.res = UntypedError("TypeError") => run.body.outcome = "network-error"
              /\ run.res = AppError(401, "Unauthorized") =>
                    \/ run.body.outcome = "http-error"
                    \/ run.body.outcome = "ok" /\ run.kid \notin run.body.kids
              /\ (run.kid = "k1" /\ run.body.outcome \in {"none", "ok"}) => IsOk(run.res)

\* cachedServiceToken is null or a token with the expiry of its own grant, and
\* a call presents a token with the expiry it was granted with
BkCacheWhole ==
    /\ bk.cache.set =>
          /\ bk.cache.token \in 1..Len(bk.granted)
          /\ bk.cache.expiresAt = bk.granted[bk.cache.token]
    /\ ~bk.cache.set => bk.cache = NoServiceToken
    /\ \A k \in BkCallers :
          bk.call[k].lookupReqs > 0 =>
              /\ bk.call[k].presented.set
              /\ bk.call[k].presented.token \in 1..Len(bk.granted)
              /\ bk.call[k].presented.expiresAt = bk.granted[bk.call[k].presented.token]

\* C36: under every interleaving of concurrent requests each cache holds nothing
\* or one complete value of a single successful fetch (a whole key set; a token
\* with its own expiry); a duplicate refresh puts another such value in its
\* place, the same one while the upstream serves the same; and no request fails
\* or reads a partly written value because of another request's refresh
C36_CachesWhole ==
    /\ jk # <<>> => JkCacheWhole /\ JkOwnVerdict
    /\ bk # <<>> => BkCacheWhole

\* C36 witness: two verifications requested the key set at the same time, the
\* second answer replaced the cached value of the first, and both succeeded
C36_Witness ==
    /\ jk # <<>>
    /\ \A r \in JkRuns :
          /\ jk.runs[r].pc = "done" /\ IsOk(jk.runs[r].res)
          /\ jk.runs[r].fetches = 1 /\ jk.runs[r].body.outcome = "ok"
    /\ jk.cache.set

\* Two calls asked the token endpoint at the same time and the grant of one
\* replaced the grant of the other in the cache
BkDuplicateRefresh ==
    /\ bk # <<>>
    /\ \A k \in BkCallers : bk.call[k].tokenReqs = 1 /\ bk.call[k].cached.set
    /\ \E k \in BkCallers : bk.call[k].cached # bk.cache

-----------------------------------------------------------------------------
(* index.ts: buildContext and the registerTool wrapper with MODE graph and
   SCOPE_MODE per_user, for tool calls that run side by side.  A call runs
   without interruption up to each await (getDelegatedGraphToken,
   initUserScope, the handler and its upstream calls). *)

CxCalls == 1..2

MaxCxBusiness == 1

\* A token whose payload names the user by the email claim
CxUserToken(mail, exp) ==
    [json |-> "object", exp |-> exp, email |-> StrClaim(mail), extEmail |-> NoClaim,
     user_name |-> NoClaim, upn |-> NoClaim, preferred_username |-> NoClaim, sub |-> NoClaim]

\* extra.authInfo.token of the value undefined, and config.XSUAA_JWT unset
CxNoToken ==
    [json |-> "undefined", exp |-> "absent", email |-> NoClaim, extEmail |-> NoClaim,
     user_name |-> NoClaim, upn |-> NoClaim, preferred_username |-> NoClaim, sub |-> NoClaim]

CxHeaderTokens ==
    {CxNoToken,
     CxUserToken(<<"A", "@", "b">>, "future"),
     CxUserToken(<<"b", "@", "x">>, "future"),
     CxUserToken(<<"A", "@", "b">>, "past"),
     [CxNoToken EXCEPT !.json = "null"],
     [CxNoToken EXCEPT !.json = "object"]}

CxConfigTokens == {CxNoToken, CxUserToken(<<"s", "@", "c">>, "future")}

NoDelegated == [granted |-> FALSE, onBehalfOf |-> CxNoToken]

NoUserGraph == [accessToken |-> NoDelegated]

NoUserScope == [madeBy |-> 0, userKey |-> NoIdentity.userKey, resolvedWith |-> NoDelegated]

NoUserContext == [graph |-> NoUserGraph, scope |-> NoUserScope, user |-> NoIdentity]

NoCxResult == [isError |-> FALSE, status |-> 0, code |-> "none"]

CxInitCall(header) ==
    [pc |-> "idle", header |-> header, token |-> CxNoToken, user |-> NoIdentity,
     lookup |-> CxNoToken, graph |-> NoUserGraph, scope |-> NoUserScope, steps |-> <<>>,
     handlerCtx |-> NoUserContext, business |-> <<>>, err |-> NoRes, result |-> NoCxResult]

\* token = headerToken ?? config.XSUAA_JWT
tokenOfCall(header, config) == IF header # CxNoToken THEN header ELSE config.XSUAA_JWT

\* The catch of the wrapper: asToolErrorPayload in an isError result
cxCatch(k, err) ==
    [k EXCEPT !.pc = "done", !.err = err,
              !.result = [isError |-> TRUE,
                          status |-> IF err.kind = "AppError" THEN err.status ELSE 500,
                          code |-> IF err.kind = "AppError" THEN err.code
                                   ELSE "InternalError"]]

\* getDelegatedGraphToken after the lookup was answered: the answer is checked
\* for its status and for authTokens[0].value
delegatedTokenOf_Unchecked(answer) == OkRes

delegatedTokenOf(answer) ==
    IF answer = "ok" THEN OkRes
    ELSE IF answer = "no-token" THEN AppError(500, "InternalError")
    ELSE AppError(502, "InternalError")

CxExchangeAnswers == {"ok", "no-token", "failed"}

\* The delegated credential the destination service makes of x-user-token
delegatedFor(userJwt, answer) ==
    IF answer = "ok" THEN [granted |-> TRUE, onBehalfOf |-> userJwt] ELSE NoDelegated

\* The context buildContext returns: { graph, scope, log, config, user } of
\* the locals of this call
contextOf_FirstBuilt(j, c) ==
    LET built == {d \in CxCalls : j.calls[d].scope # NoUserScope}
        d == CHOOSE e \in built : \A f \in built : e <= f
    IN [graph |-> j.calls[d].graph, scope |-> j.calls[d].scope, user |-> j.calls[d].user]

contextOf(j, c) ==
    [graph |-> j.calls[c].graph, scope |-> j.calls[c].scope, user |-> j.calls[c].user]

\* The wrapper is called: buildContext up to its first await
CxInvoke(c) ==
    LET k == cx.calls[c]
        token == tokenOfCall(k.header, cx.config)
        id == getUserIdentityFromJwt(token)
    IN /\ cx # <<>>
       /\ k.pc = "idle"
       /\ cx' = [cx EXCEPT !.calls[c] =
                    IF token = CxNoToken THEN cxCatch(k, AppError(401, "Unauthorized"))
                    ELSE IF ~IsOk(id.res)
                       THEN cxCatch([k EXCEPT !.token = token, !.steps = <<"token">>], id.res)
                    ELSE IF cx.config.DESTINATION_NAME = "absent"
                       THEN cxCatch([k EXCEPT !.token = token, !.user = id.out,
                                              !.steps = <<"token", "identity">>],
                                    AppError(500, "InternalError"))
                    ELSE [k EXCEPT !.pc = "exchange", !.token = token, !.user = id.out,
                                   !.lookup = token, !.steps = <<"token", "identity">>]]
       /\ OutsideContext

\* getDelegatedGraphToken resolves or rejects; createGraphWithAccessToken;
\* initUserScope is called
CxExchangeAnswer(c) ==
    LET k == cx.calls[c]
    IN /\ cx # <<>>
       /\ k.pc = "exchange"
       /\ \E answer \in CxExchangeAnswers :
            cx' = [cx EXCEPT !.calls[c] =
                     IF ~IsOk(delegatedTokenOf(answer)) THEN cxCatch(k, delegatedTokenOf(answer))
                     ELSE [k EXCEPT !.pc = "scope",
                                    !.graph = [accessToken |-> delegatedFor(k.lookup, answer)],
                                    !.steps = Append(@, "exchange")]]
       /\ OutsideContext

CxScopeAnswers == {OkRes, AppError(403, "Forbidden"), AppError(502, "UpstreamError")}

\* initUserScope resolves or rejects; buildContext returns and the handler is
\* called with the context
CxScopeAnswer(c) ==
    LET k == cx.calls[c]
    IN /\ cx # <<>>
       /\ k.pc = "scope"
       /\ \E answer \in CxScopeAnswers :
            LET scoped == [cx EXCEPT !.calls[c].scope =
                              [madeBy |-> c, userKey |-> k.user.userKey,
                               resolvedWith |-> k.graph.accessToken]]
            IN cx' = [cx EXCEPT !.calls[c] =
                        IF ~IsOk(answer) THEN cxCatch(k, answer)
                        ELSE [scoped.calls[c] EXCEPT
                                 !.pc = "handler",
                                 !.steps = k.steps \o <<"scope", "handler">>,
                                 !.handlerCtx = contextOf(scoped, c)]]
       /\ OutsideContext

\* The handler calls upstream for its work with ctx.graph
CxHandlerCall(c) ==
    LET k == cx.calls[c]
    IN /\ cx # <<>>
       /\ k.pc = "handler"
       /\ Len(k.business) < MaxCxBusiness
       /\ cx' = [cx EXCEPT !.calls[c].business = Append(@, k.handlerCtx.graph.accessToken)]
       /\ OutsideContext

CxHandlerOutcomes == {OkRes, AppError(404, "NotFound"), UntypedError("TypeError")}

\* The handler resolves or rejects
CxHandlerReturn(c) ==
    LET k == cx.calls[c]
    IN /\ cx # <<>>
       /\ k.pc = "handler"
       /\ \E outcome \in CxHandlerOutcomes :
            cx' = [cx EXCEPT !.calls[c] =
                     IF ~IsOk(outcome) THEN cxCatch(k, outcome)
                     ELSE [k EXCEPT !.pc = "done",
                                    !.result = [isError |-> FALSE, status |-> 200,
                                                code |-> "OK"]]]
       /\ OutsideContext

ContextInit ==
    /\ ContextOnly
    /\ \E headers \in [CxCalls -> CxHeaderTokens], xsuaa \in CxConfigTokens,
          dest \in {"absent", "dest"} :
         cx = [config |-> [XSUAA_JWT |-> xsuaa, DESTINATION_NAME |-> dest],
               calls |-> [c \in CxCalls |-> CxInitCall(headers[c])]]

ContextNext ==
    \E c \in CxCalls :
       \/ CxInvoke(c)
       \/ CxExchangeAnswer(c)
       \/ CxScopeAnswer(c)
       \/ CxHandlerCall(c)
       \/ CxHandlerReturn(c)

SpecContext == ContextInit /\ [][ContextNext]_vars

CxOrder == <<"token", "identity", "exchange", "scope", "handler">>

CxHandlerInvoked(c) == cx.calls[c].handlerCtx # NoUserContext

\* C37: in per-user mode a tool call obtains the user token, derives the
\* identity, exchanges the token for the delegated credential and resolves the
\* per-user scope in this order and only then invokes the handler; when one of
\* these steps fails the handler is never invoked, no business upstream call is
\* made and the call returns an isError payload
C37_StepsBeforeHandler ==
    \A c \in CxCalls :
       LET k == cx.calls[c]
       IN /\ Len(k.steps) <= Len(CxOrder)
          /\ k.steps = SubSeq(CxOrder, 1, Len(k.steps))
          /\ CxHandlerInvoked(c) =>
                /\ k.steps = CxOrder
                /\ tokenOfCall(k.header, cx.config) # CxNoToken
                /\ IsOk(getUserIdentityFromJwt(tokenOfCall(k.header, cx.config)).res)
                /\ k.graph.accessToken.granted
                /\ k.scope # NoUserScope
          /\ k.business # <<>> => CxHandlerInvoked(c)
          /\ (k.pc = "done" /\ Len(k.steps) < Len(CxOrder)) =>
                /\ ~CxHandlerInvoked(c)
                /\ k.business = <<>>
                /\ k.result.isError

\* One call failed at the scope resolution and answered with an error payload
\* while the other went through all steps and its handler did its work
C37_Witness ==
    \E c, d \in CxCalls :
       /\ cx.calls[c].pc = "done"
       /\ cx.calls[c].steps = <<"token", "identity", "exchange">>
       /\ cx.calls[c].result.isError
       /\ cx.calls[d].pc = "done"
       /\ cx.calls[d].steps = CxOrder
       /\ cx.calls[d].business # <<>>
       /\ ~cx.calls[d].result.isError

\* C38: in per-user mode, for tool calls of different users that run side by
\* side, the scope and the upstream credential the handler of a call gets are
\* those derived from the token of that call: the scope is made by the call
\* itself, its userKey is the key derived from the token, and the credential
\* is the one granted on behalf of the token
C38_OwnScopeAndCredential ==
    \A c \in CxCalls :
       LET k == cx.calls[c]
           token == tokenOfCall(k.header, cx.config)
       IN CxHandlerInvoked(c) =>
             /\ k.handlerCtx.scope.madeBy = c
             /\ k.handlerCtx.scope.userKey = getUserIdentityFromJwt(token).out.userKey
             /\ k.handlerCtx.user = getUserIdentityFromJwt(token).out
             /\ k.handlerCtx.graph.accessToken = [granted |-> TRUE, onBehalfOf |-> token]
             /\ k.handlerCtx.scope.resolvedWith = [granted |-> TRUE, onBehalfOf |-> token]
             /\ \A i \in 1..Len(k.business) :
                   k.business[i] = [granted |-> TRUE, onBehalfOf |-> token]

\* Two calls of different users are in their handlers at the same time and
\* both have called upstream
C38_Witness ==
    /\ \A c \in CxCalls : cx.calls[c].pc = "handler" /\ cx.calls[c].business # <<>>
    /\ cx.calls[1].header # CxNoToken
    /\ cx.calls[2].header # CxNoToken
    /\ cx.calls[1].handlerCtx.scope.userKey # cx.calls[2].handlerCtx.scope.userKey

-----------------------------------------------------------------------------
(* tools/minutes_render_and_upload_docx.ts (SharePoint upload): the file name
   is resolved by asking the output folder for each candidate and the document
   is then written by PUT .../{fileName}:/content.  Calls run side by side;
   the folder answers one request at a time. *)

UmCalls == 1..2

\* maxVersions, scaled to the model
maxVersions == 2

UploadOnly == EarlyIdle /\ MidIdle /\ JkIdle /\ CxIdle

OutsideUpload == UNCHANGED <<earlyVars, lateVars, jk, cx>>

\* The decimal text of a version number
VersionText(n) == <<"1", "2", "3", "4", "5", "6", "7", "8", "9">>[n]

\* fileName.lastIndexOf("."), 0 where there is none
RECURSIVE lastIndexOfDot(_)
lastIndexOfDot(s) ==
    IF s = <<>> THEN 0
    ELSE IF s[Len(s)] = "." THEN Len(s)
    ELSE lastIndexOfDot(SubSeq(s, 1, Len(s) - 1))

\* withVersionSuffix: `${base}__v${version}${ext || ".docx"}`
withVersionSuffix(fileName, version) ==
    LET idx == lastIndexOfDot(fileName)
        base == IF idx >= 1 THEN SubSeq(fileName, 1, idx - 1) ELSE fileName
        ext == IF idx >= 1 THEN SubSeq(fileName, idx, Len(fileName)) ELSE <<>>
    IN base \o <<"__v", VersionText(version)>> \o (IF ext # <<>> THEN ext ELSE <<".", "docx">>)

\* The file names the calls resolve to (validateOverrideFilename passed)
UmFileNames == {<<"m", ".", "docx">>, <<"m", ".", "b", ".", "docx">>}

\* The names a call can come to ask for
UmCandidates(fileName) ==
    {fileName} \cup {withVersionSuffix(fileName, n) : n \in 2..(maxVersions + 1)}

\* What the steps before the name resolution come to: input validation,
\* fetchAndValidateDriveItem and the ETag comparison
UmEntryOutcomes == {OkRes, AppError(400, "ValidationError"), AppError(409, "Conflict")}

\* Statuses of a failed existence check and of a failed upload
UmFailStatuses == {403, 429, 500}

UmInitCall(fileName) ==
    [pc |-> "idle", fileName |-> fileName, finalName |-> <<>>, v |-> 0, res |-> NoRes,
     wrote |-> FALSE, replaced |-> 0 - 1, raced |-> FALSE]

\* The item of that name in the folder, or nothing
UmExists(folder, name) == \E f \in folder : f.name = name

\* The error getItemByPath and uploadToOutputFolder make of a status
umStatusError(status) ==
    IF status = 403 THEN AppError(403, "Forbidden")
    ELSE IF status = 404 THEN AppError(404, "NotFound")
    ELSE IF status = 429 THEN AppError(429, "TooManyRequests")
    ELSE AppError(status, "GraphError")

\* After the loop: the second look happens only for a suffixed name, else the
\* upload is sent
umAfterLoop(k) ==
    IF k.finalName # k.fileName THEN [k EXCEPT !.pc = "recheck"]
    ELSE [k EXCEPT !.pc = "upload"]

\* The tool is called: everything before the loop, then the first
\* getItemByPath is sent
UploadStart(c) ==
    LET k == um.calls[c]
    IN /\ um # <<>>
       /\ k.pc = "idle"
       /\ \E outcome \in UmEntryOutcomes :
            um' = [um EXCEPT !.calls[c] =
                     IF ~IsOk(outcome) THEN [k EXCEPT !.pc = "done", !.res = outcome]
                     ELSE [k EXCEPT !.pc = "check", !.finalName = k.fileName, !.v = 1]]
       /\ OutsideUpload

\* getItemByPath of the loop is answered: 404, the item, or a failure
UploadCheck(c) ==
    LET k == um.calls[c]
        next == [k EXCEPT !.finalName = withVersionSuffix(k.fileName, k.v + 1), !.v = k.v + 1]
    IN /\ um # <<>>
       /\ k.pc = "check"
       /\ \/ um' = [um EXCEPT !.calls[c] =
                      IF ~UmExists(um.folder, k.finalName) THEN umAfterLoop(k)
                      ELSE IF next.v <= maxVersions THEN next
                      ELSE umAfterLoop(next)]
          \/ \E status \in UmFailStatuses :
               um' = [um EXCEPT !.calls[c] =
                        [k EXCEPT !.pc = "done", !.res = umStatusError(status)]]
       /\ OutsideUpload

\* getItemByPath after the loop is answered
UploadRecheck(c) ==
    LET k == um.calls[c]
    IN /\ um # <<>>
       /\ k.pc = "recheck"
       /\ \/ um' = [um EXCEPT !.calls[c] =
                      IF UmExists(um.folder, k.finalName)
                      THEN [k EXCEPT !.pc = "done", !.res = AppError(409, "Conflict")]
                      ELSE [k EXCEPT !.pc = "upload"]]
          \/ \E status \in UmFailStatuses :
               um' = [um EXCEPT !.calls[c] =
                        [k EXCEPT !.pc = "done", !.res = umStatusError(status)]]
       /\ OutsideUpload

\* PUT .../{finalName}:/content is answered: the folder creates the file, or
\* replaces the content of the file of that name, or the upload fails
UploadPut(c) ==
    LET k == um.calls[c]
        others == {f \in um.folder : f.name # k.finalName}
        old == {f \in um.folder : f.name = k.finalName}
    IN /\ um # <<>>
       /\ k.pc = "upload"
       /\ \/ um' = [um EXCEPT
                      !.folder = others \cup {[name |-> k.finalName, by |-> c]},
                      !.calls = [d \in UmCalls |->
                                   IF d = c
                                   THEN [k EXCEPT !.pc = "done", !.res = OkRes, !.wrote = TRUE,
                                                  !.replaced =
                                                     IF old = {} THEN 0 - 1
                                                     ELSE (CHOOSE f \in old : TRUE).by]
                                   ELSE IF um.calls[d].pc \in {"check", "recheck", "upload"}
                                      THEN [um.calls[d] EXCEPT !.raced = TRUE]
                                   ELSE um.calls[d]]]
          \/ \E status \in UmFailStatuses \cup {404} :
               um' = [um EXCEPT !.calls[c] =
                        [k EXCEPT !.pc = "done", !.res = umStatusError(status)]]
       /\ OutsideUpload

\* The output folder holds some of the names already (written by: 0)
UploadInit ==
    /\ UploadOnly
    /\ \E names \in [UmCalls -> UmFileNames] :
       \E taken \in SUBSET UmCandidates(names[1]) :
          um = [folder |-> {[name |-> n, by |-> 0] : n \in taken},
                calls |-> [c \in UmCalls |-> UmInitCall(names[c])]]

UploadNext ==
    \E c \in UmCalls :
       \/ UploadStart(c)
       \/ UploadCheck(c)
       \/ UploadRecheck(c)
       \/ UploadPut(c)

SpecUpload == UploadInit /\ [][UploadNext]_vars

\* C40: the upload never writes to a file name that is already in the output
\* folder: no upload replaces a file, a call that succeeded wrote its own file
\* under the resolved name or one of its __vN names, and a call for which all
\* names were taken fails with Conflict; also for two calls that resolve to the
\* same name and run side by side
C40_AsStated ==
    \A c \in UmCalls :
       LET k == um.calls[c]
       IN /\ k.wrote => k.replaced = 0 - 1
          /\ k.wrote => k.finalName \in UmCandidates(k.fileName)
          /\ (k.pc = "done" /\ ~k.wrote /\ k.v > maxVersions) =>
                k.res \in {AppError(409, "Conflict")} \cup
                          {umStatusError(s) : s \in UmFailStatuses \cup {404}}

\* A call replaces a file only when another upload was answered between its
\* first look at the folder and its own upload
UmReplacesOnlyAfterRace ==
    \A c \in UmCalls :
       (um.calls[c].wrote /\ um.calls[c].replaced # 0 - 1) =>
          /\ um.calls[c].raced
          /\ um.calls[c].replaced \in UmCalls \ {c}

\* A call that ran alone took the first free name
UmFirstFreeWhenAlone ==
    \A c \in UmCalls :
       LET k == um.calls[c]
       IN (k.wrote /\ ~k.raced) =>
             /\ k.replaced = 0 - 1
             /\ k.finalName # k.fileName => UmExists(um.folder, k.fileName)
             /\ \A n \in 2..(maxVersions + 1) :
                   (k.finalName = withVersionSuffix(k.fileName, n)) =>
                      \A m \in 2..(n - 1) :
                         UmExists(um.folder, withVersionSuffix(k.fileName, m))

\* Both calls resolved to a suffixed name while all was in order
UmSuffixedUpload ==
    \E c \in UmCalls :
       /\ um.calls[c].wrote /\ ~um.calls[c].raced
       /\ um.calls[c].finalName = withVersionSuffix(um.calls[c].fileName, 3)

====
